---- MODULE Spec2Model ----
(***************************************************************************)
(* Model of the resilience control plane of scrapeme:                      *)
(*   core/circuit_breaker.py  CircuitBreaker, CircuitBreakerRegistry       *)
(*   core/browser.py          WebDriverPool, BrowserManager.session        *)
(*   core/frames.py           FramesNavigator.context                      *)
(*   core/scraper.py          SiteScraper._exec_step, SiteScraper.run      *)
(*   runner.py                process_site, main                           *)
(*   core/rate_limiter.py     TokenBucket                                  *)
(*   core/retry.py            selenium_retry                               *)
(*   core/waits.py            Waiter                                       *)
(* The specifications share the variables; each drives its own and leaves  *)
(* the others at rest:                                                     *)
(*   SpecBreaker  one breaker driven by arbitrary calls and a clock        *)
(*   SpecPool     threads calling WebDriverPool.connection and close_all,  *)
(*                interleaved at the granularity of shared-state accesses  *)
(*   SpecRunner   sequential process_site invocations over the registry    *)
(*   SpecSessions the runs of SpecPool and of SpecRunner                   *)
(*   SpecScraper  one SiteScraper.run, stage by stage                      *)
(*   SpecBucket   one TokenBucket under consume, wait_for_tokens, a clock  *)
(*   SpecRetry    one call of a method wrapped by selenium_retry           *)
(*   SpecMain     main: the executor, the collection loop, the shutdown    *)
(*   SpecEnhanced EnhancedSiteScraper: the field extraction of a step      *)
(*   SpecUrl      core/url.py normalize_url applied once and again         *)
(***************************************************************************)
EXTENDS Integers, Sequences, FiniteSets, TLC

(* ------------------------------ bounds --------------------------------- *)

\* largest capacity of a token bucket, in tokens
MaxCapacity == 2

\* largest fill rate of a token bucket, in units per tick
MaxRate == 3

\* the monotonic clock stops here
MaxClock == 4

\* most sites load_sites returns
MaxSites == 3

\* largest --max-workers
MaxWorkers == 2

\* most frames a step enters
MaxFrames == 2

\* most fields a step extracts
MaxFields == 2

\* most steps of a site program
MaxSteps == 2

\* largest failure_threshold / success_threshold explored for a breaker
MaxThreshold == 2

\* record_failure is not called once the failure counter reached this value
MaxFailures == 4

\* the clock of SpecBreaker stops here
MaxTime == 4

\* process_site is not called for a site whose failure counter exceeds this value
MaxSiteFailures == 5

\* number of half-timeout clock advances explored in SpecRunner
MaxElapse == 2

\* number of WebDriver instances the factory may create in SpecPool
MaxHandles == 3

\* largest max_size of the pool explored
MaxPoolSize == 1

\* fields of a step handed to the field extractor
MaxTasks == 3

\* characters of a URL after its scheme and host
MaxUrlLen == 3

\* the rates handed to AdaptiveRateLimiter, in tenths of a request per second
MaxAdaptiveRate == 5

(* ------------------------- circuit_breaker.py -------------------------- *)

CLOSED == "CLOSED"
OPEN == "OPEN"
HALF_OPEN == "HALF_OPEN"

CircuitState == {CLOSED, OPEN, HALF_OPEN}

\* _last_failure_time: float | None
None == -1

CircuitBreakerConfig(ft, rt, st) ==
    [failure_threshold |-> ft, recovery_timeout |-> rt, success_threshold |-> st]

\* the dataclass defaults, used whenever no config is passed
DefaultConfig == CircuitBreakerConfig(5, 60, 2)

CircuitBreaker(config) ==
    [state |-> CLOSED, failures |-> 0, successes |-> 0,
     last_failure_time |-> None, config |-> config]

_transition_to(b, new_state) == [b EXCEPT !.state = new_state]

_maybe_attempt_reset_NoCounterReset(b, t) ==
    IF b.state = OPEN /\ b.last_failure_time # None
       /\ t - b.last_failure_time >= b.config.recovery_timeout
    THEN _transition_to(b, HALF_OPEN)
    ELSE b

_maybe_attempt_reset(b, t) ==
    IF b.state = OPEN /\ b.last_failure_time # None
       /\ t - b.last_failure_time >= b.config.recovery_timeout
    THEN [_transition_to(b, HALF_OPEN) EXCEPT !.successes = 0]
    ELSE b

record_success_CloseAtFirst(b) ==
    IF b.state = HALF_OPEN
    THEN [_transition_to(b, CLOSED) EXCEPT !.successes = b.successes + 1, !.failures = 0]
    ELSE IF b.state = CLOSED THEN [b EXCEPT !.failures = 0] ELSE b

record_success_KeepFailures(b) ==
    IF b.state = HALF_OPEN
    THEN LET s1 == [b EXCEPT !.successes = b.successes + 1]
         IN  IF s1.successes >= s1.config.success_threshold
             THEN _transition_to(s1, CLOSED)
             ELSE s1
    ELSE IF b.state = CLOSED THEN [b EXCEPT !.failures = 0] ELSE b

record_success(b) ==
    IF b.state = HALF_OPEN
    THEN LET s1 == [b EXCEPT !.successes = b.successes + 1]
         IN  IF s1.successes >= s1.config.success_threshold
             THEN [_transition_to(s1, CLOSED) EXCEPT !.failures = 0]
             ELSE s1
    ELSE IF b.state = CLOSED THEN [b EXCEPT !.failures = 0] ELSE b

record_failure_OffByOne(b, t) ==
    LET f1 == [b EXCEPT !.failures = b.failures + 1, !.last_failure_time = t]
    IN  IF f1.state = HALF_OPEN THEN _transition_to(f1, OPEN)
        ELSE IF f1.state = CLOSED /\ f1.failures > f1.config.failure_threshold
             THEN _transition_to(f1, OPEN)
             ELSE f1

record_failure_TrialIgnored(b, t) ==
    LET f1 == [b EXCEPT !.failures = b.failures + 1, !.last_failure_time = t]
    IN  IF f1.state = CLOSED /\ f1.failures >= f1.config.failure_threshold
        THEN _transition_to(f1, OPEN)
        ELSE f1

record_failure_WithReset(b, t) ==
    LET r1 == _maybe_attempt_reset(b, t)
        f1 == [r1 EXCEPT !.failures = r1.failures + 1, !.last_failure_time = t]
    IN  IF r1.state = HALF_OPEN /\ b.state = HALF_OPEN THEN _transition_to(f1, OPEN)
        ELSE IF f1.state = CLOSED /\ f1.failures >= f1.config.failure_threshold
             THEN _transition_to(f1, OPEN)
             ELSE f1

record_failure(b, t) ==
    LET f1 == [b EXCEPT !.failures = b.failures + 1, !.last_failure_time = t]
    IN  IF f1.state = HALF_OPEN THEN _transition_to(f1, OPEN)
        ELSE IF f1.state = CLOSED /\ f1.failures >= f1.config.failure_threshold
             THEN _transition_to(f1, OPEN)
             ELSE f1

is_call_permitted_DenyHalfOpen(b, t) ==
    LET r1 == _maybe_attempt_reset(b, t)
    IN  [b |-> r1, ret |-> r1.state = CLOSED]

\* returns the breaker after the lazy reset and the answer
is_call_permitted(b, t) ==
    LET r1 == _maybe_attempt_reset(b, t)
    IN  [b |-> r1, ret |-> r1.state # OPEN]

\* the state property: the breaker after the lazy reset and the state read
state(b, t) ==
    LET r1 == _maybe_attempt_reset(b, t)
    IN  [b |-> r1, ret |-> r1.state]

(* ------------------------------- state --------------------------------- *)

Sites == {"s1"}

Threads == {"t1", "t2"}

VARIABLES
    now,          \* the clock read by time.time()
    _breakers,    \* CircuitBreakerRegistry._breakers: site name -> breaker
    hist,         \* the last breaker call of SpecBreaker and the streaks it extends
    _max_size,    \* WebDriverPool._max_size
    _pool,        \* WebDriverPool._pool: the queue of idle drivers, oldest first
    _created,     \* WebDriverPool._created
    _closed,      \* WebDriverPool._closed
    _lock,        \* WebDriverPool._lock: the thread holding it, or Free
    status,       \* per driver: "none" (not created), "alive", "dead", "quit"
    pc,           \* per thread: where it is inside WebDriverPool.connection
    driver,       \* per thread: the local variable driver of acquire / connection
    tmp,          \* per thread: the value of _created read by a pending += / -=
    exc,          \* per thread: whether the body of the with block raised
    released,     \* per thread: how often release disposed of the driver handed out
    result,       \* per thread: how its last connection call ended
    cpc,          \* where the thread running close_all is
    enable_pooling, \* the --enable-pooling argument handed to process_site
    prog,         \* per site: its SiteConfig (login present, frames of each step)
    rpc,          \* per worker: where it is inside process_site
    inv,          \* per worker: what its current / last process_site call did
    streak,       \* per site: consecutive completed calls that a field failure failed
    _config,      \* SiteScraper._config: base_url set or not, the StepBlocks
    spc,          \* where SiteScraper.run / _exec_step is
    sk,           \* run: the number of the step of the for loop
    entered,      \* FramesNavigator.context: entered
    depth,        \* the driver: how many frames below the top-level document it is
    raising,      \* _exec_step: the exception in flight, or "none"
    data,         \* _exec_step: the number of entries of data
    retv,         \* _exec_step: the value of a pending return statement, or "none"
    results,      \* run: results, one entry per step in program order
    trace,        \* every command sent and wait made by run, in order
    run_ret,      \* how run ended: "none" (running), "returned", or the exception raised
    monotonic,    \* the clock read by time.monotonic(), in ticks
    bucket,       \* a TokenBucket: _capacity, _tokens, _fill_rate, _last_update
    bhist,        \* the last consume call: the bucket and clock it found, what it did
    wpc,          \* where the thread inside wait_for_tokens is
    wloc,         \* wait_for_tokens: tokens, timeout, start, the end of the sleep, the result
    fn,           \* the method selenium_retry wraps: "_safe_click" or "_extract_field"
    tpc,          \* where the retry loop of the call is
    attempt_number, \* retry_state.attempt_number
    tlog,         \* the calls of the wrapped method and the sleeps, in order
    surfaced,     \* what the caller of the wrapped method got: "none", "value" or an error
    shutdown_event, \* infra.signals.shutdown_event: set or not
    jsonl,        \* main: args.jsonl
    nsites,       \* main: len(sites); the sites are 1..nsites in the order loaded
    max_workers,  \* main: max_workers
    futures,      \* main: per site, the state of the future of its process_site call
    mpc,          \* where main is
    future,       \* main: the future as_completed has just yielded (its site), or 0
    yielded,      \* the futures as_completed has yielded so far
    collected,    \* main: results (the lines written to args.out with --jsonl)
    exit_code,    \* what main returned, or None
    estep,        \* _execute_step_async: step (frames, parallel_extraction, fields)
    epc,          \* where the field extraction of _execute_step_async is
    tasks,        \* per field: its _extract_field_sync call in the executor
    ek,           \* the number of fields whose result has been taken into results
    extracted,    \* AsyncFieldExtractor: results, the values in field order
    eraise,       \* the exception raised inside the with block, or "none"
    eret,         \* how _execute_step_async ended: "none", "data", "None" or the error
    url,          \* the argument of normalize_url, a string as the sequence of its characters
    upc,          \* how often normalize_url has been applied
    once,         \* normalize_url(url)
    twice,        \* normalize_url(normalize_url(url))
    bucket_lock,  \* TokenBucket._lock: "free" or the thread that holds it
    kpc,          \* where each thread is inside consume
    kloc,         \* the locals of each thread inside consume: the tokens asked for, the value returned
    granted,      \* the tokens that consume calls have granted so far
    aargs,        \* the arguments handed to AdaptiveRateLimiter
    apc,          \* where the construction of the AdaptiveRateLimiter is: "idle", "new", "built" or "TypeError"
    _rate_limiter \* EnhancedSiteScraper._rate_limiter: the limiter built, if any

breakerVars == <<now, _breakers, hist>>

poolVars == <<_max_size, _pool, _created, _closed, _lock, status,
              pc, driver, tmp, exc, released, result, cpc>>

runnerVars == <<enable_pooling, prog, rpc, inv, streak>>

scraperVars == <<_config, spc, sk, entered, depth, raising, data, retv, results,
                 trace, run_ret>>

bucketVars == <<monotonic, bucket, bhist, wpc, wloc>>

retryVars == <<fn, tpc, attempt_number, tlog, surfaced>>

mainVars == <<shutdown_event, jsonl, nsites, max_workers, futures, mpc, future,
              yielded, collected, exit_code>>

enhancedVars == <<estep, epc, tasks, ek, extracted, eraise, eret>>

urlVars == <<url, upc, once, twice>>

consumerVars == <<bucket_lock, kpc, kloc, granted>>

adaptiveVars == <<aargs, apc, _rate_limiter>>

\* the components added after main
moreVars == <<enhancedVars, urlVars, consumerVars, adaptiveVars>>

restVars == <<scraperVars, bucketVars, retryVars, mainVars, moreVars>>

vars == <<now, _breakers, hist, _max_size, _pool, _created, _closed, _lock, status,
          pc, driver, tmp, exc, released, result, cpc,
          enable_pooling, prog, rpc, inv, streak, restVars>>

\* SiteScraper before run() is called, for a site with no step
NoScraper ==
    /\ _config = [base_url |-> FALSE, steps |-> <<>>]
    /\ spc = "idle"
    /\ sk = 0
    /\ entered = 0
    /\ depth = 0
    /\ raising = "none"
    /\ data = 0
    /\ retv = "none"
    /\ results = <<>>
    /\ trace = <<>>
    /\ run_ret = "none"

\* tokens are counted in units of 1 / Unit token, fill rates in units per tick
Unit == 2

\* TokenBucket(capacity, fill_rate) constructed at time t
TokenBucket(capacity, fill_rate, t) ==
    [capacity |-> capacity, tokens |-> capacity * Unit, fill_rate |-> fill_rate,
     last_update |-> t]

NoConsume == [op |-> "none", n |-> 0, found |-> TokenBucket(1, 1, 0), at |-> 0, ret |-> FALSE]

NoWait == [tokens |-> 0, timeout |-> None, start |-> 0, wake |-> 0, ret |-> "none"]

\* a bucket nobody has used yet
NoBucket ==
    /\ monotonic = 0
    /\ bucket = TokenBucket(1, 1, 0)
    /\ bhist = NoConsume
    /\ wpc = "idle"
    /\ wloc = NoWait

\* no call of a wrapped method under way
NoRetry ==
    /\ fn = "none"
    /\ tpc = "idle"
    /\ attempt_number = 0
    /\ tlog = <<>>
    /\ surfaced = "none"

\* main not started, no site loaded
NoMain ==
    /\ shutdown_event = FALSE
    /\ jsonl = FALSE
    /\ nsites = 0
    /\ max_workers = 1
    /\ futures = <<>>
    /\ mpc = "idle"
    /\ future = 0
    /\ yielded = {}
    /\ collected = <<>>
    /\ exit_code = None

\* no step handed to _execute_step_async
NoEnhanced ==
    /\ estep = [frames |-> 0, parallel_extraction |-> FALSE, fields |-> <<>>]
    /\ epc = "idle"
    /\ tasks = <<>>
    /\ ek = 0
    /\ extracted = <<>>
    /\ eraise = "none"
    /\ eret = "none"

\* normalize_url not called
NoUrl ==
    /\ url = <<>>
    /\ upc = "idle"
    /\ once = <<>>
    /\ twice = <<>>

\* no thread inside consume
NoConsumers ==
    /\ bucket_lock = "free"
    /\ kpc = [t \in Threads |-> "idle"]
    /\ kloc = [t \in Threads |-> [tokens |-> 0, ret |-> FALSE]]
    /\ granted = 0

\* no AdaptiveRateLimiter object
NoLimiter == [built |-> FALSE, _rate |-> 0, _min_rate |-> 0, _max_rate |-> 0]

\* no AdaptiveRateLimiter asked for
NoAdaptive ==
    /\ aargs = [initial_rate |-> 0, min_rate |-> 0, max_rate |-> 0]
    /\ apc = "idle"
    /\ _rate_limiter = NoLimiter

NoMore == NoEnhanced /\ NoUrl /\ NoConsumers /\ NoAdaptive

\* the components a specification does not drive, at rest
RestIdle == NoScraper /\ NoBucket /\ NoRetry /\ NoMain /\ NoMore

Free == "free"

\* WebDriverPool(factory, max_size) right after construction, no thread inside
WebDriverPool(n) ==
    /\ _max_size = n
    /\ _pool = <<>>
    /\ _created = 0
    /\ _closed = FALSE
    /\ _lock = Free
    /\ status = [h \in 1..MaxHandles |-> "none"]
    /\ pc = [t \in Threads |-> "idle"]
    /\ driver = [t \in Threads |-> 0]
    /\ tmp = [t \in Threads |-> 0]
    /\ exc = [t \in Threads |-> FALSE]
    /\ released = [t \in Threads |-> 0]
    /\ result = [t \in Threads |-> "none"]
    /\ cpc = "idle"

Workers == {"t1"}

\* what process_site has done so far in one call
NoInvocation ==
    [site |-> "", gate |-> "none", k |-> 0, attempted |-> FALSE, sessions |-> 0, login |-> FALSE,
     steps |-> 0, nones |-> 0, rec_success |-> 0, rec_failure |-> 0,
     outcome |-> "none", cause |-> "none", prior |-> 0]

\* no process_site call made yet, under the given configuration
Runner(pooling, programs) ==
    /\ enable_pooling = pooling
    /\ prog = programs
    /\ rpc = [w \in Workers |-> "idle"]
    /\ inv = [w \in Workers |-> NoInvocation]
    /\ streak = [s \in Sites |-> 0]

\* the steps of a site that is not run
NoSteps == [login |-> FALSE, steps |-> <<>>]

\* op: the call; from: the state it found; ret: what it returned;
\* fails: record_failure calls since the breaker was last Closed with a zero
\*        failure counter, no record_success in between (-1: none such);
\* succs: record_success calls since the breaker last entered HalfOpen (-1: not on trial)
NoCall == [op |-> "none", from |-> CLOSED, ret |-> TRUE, fails |-> 0, succs |-> -1,
           elapsed |-> FALSE, same |-> TRUE]

\* no breaker registered, clock at zero
NoBreakers ==
    /\ now = 0
    /\ _breakers = [s \in {} |-> CircuitBreaker(DefaultConfig)]
    /\ hist = NoCall

(* --------------------------- SpecBreaker ------------------------------- *)

\* the breaker SpecBreaker drives
TheSite == "s1"

RecoveryTimeouts == {1, 2}

BreakerConfigs ==
    {CircuitBreakerConfig(ft, rt, st) :
        ft \in 1..MaxThreshold, rt \in RecoveryTimeouts, st \in 1..MaxThreshold}

InitBreaker ==
    /\ now = 0
    /\ \E cfg \in BreakerConfigs : _breakers = [s \in {TheSite} |-> CircuitBreaker(cfg)]
    /\ hist = NoCall
    /\ WebDriverPool(1)
    /\ Runner(FALSE, [s \in Sites |-> NoSteps])
    /\ RestIdle

Elapsed(b, t) ==
    b.last_failure_time # None /\ t - b.last_failure_time >= b.config.recovery_timeout

Tick ==
    /\ now < MaxTime
    /\ now' = now + 1
    /\ UNCHANGED <<_breakers, hist>>
    /\ UNCHANGED <<poolVars, runnerVars, restVars>>

RecordSuccess(s) ==
    LET b == _breakers[s]
        b1 == record_success(b)
    IN  /\ _breakers' = [_breakers EXCEPT ![s] = b1]
        /\ hist' = [op |-> "record_success", from |-> b.state, ret |-> TRUE,
                    fails |-> IF b1.state = CLOSED /\ b1.failures = 0 THEN 0 ELSE -1,
                    succs |-> IF b.state = HALF_OPEN /\ hist.succs >= 0
                              THEN hist.succs + 1 ELSE -1,
                    elapsed |-> Elapsed(b, now), same |-> b1 = b]
        /\ UNCHANGED <<now, poolVars, runnerVars, restVars>>

RecordFailure(s) ==
    LET b == _breakers[s]
        b1 == record_failure(b, now)
    IN  /\ b.failures < MaxFailures
        /\ _breakers' = [_breakers EXCEPT ![s] = b1]
        /\ hist' = [op |-> "record_failure", from |-> b.state, ret |-> TRUE,
                    fails |-> IF hist.fails >= 0 THEN hist.fails + 1 ELSE -1,
                    succs |-> -1,
                    elapsed |-> Elapsed(b, now), same |-> b1 = b]
        /\ UNCHANGED <<now, poolVars, runnerVars, restVars>>

IsCallPermitted(s) ==
    LET b == _breakers[s]
        r == is_call_permitted(b, now)
    IN  /\ _breakers' = [_breakers EXCEPT ![s] = r.b]
        /\ hist' = [op |-> "is_call_permitted", from |-> b.state, ret |-> r.ret,
                    fails |-> hist.fails,
                    succs |-> IF b.state = OPEN /\ r.b.state = HALF_OPEN THEN 0
                              ELSE hist.succs,
                    elapsed |-> Elapsed(b, now), same |-> r.b = b]
        /\ UNCHANGED <<now, poolVars, runnerVars, restVars>>

StateRead(s) ==
    LET b == _breakers[s]
        r == state(b, now)
    IN  /\ _breakers' = [_breakers EXCEPT ![s] = r.b]
        /\ hist' = [op |-> "state", from |-> b.state, ret |-> r.ret # OPEN,
                    fails |-> hist.fails,
                    succs |-> IF b.state = OPEN /\ r.b.state = HALF_OPEN THEN 0
                              ELSE hist.succs,
                    elapsed |-> Elapsed(b, now), same |-> r.b = b]
        /\ UNCHANGED <<now, poolVars, runnerVars, restVars>>

NextBreaker ==
    \/ Tick
    \/ RecordSuccess(TheSite)
    \/ RecordFailure(TheSite)
    \/ IsCallPermitted(TheSite)
    \/ StateRead(TheSite)

SpecBreaker == InitBreaker /\ [][NextBreaker]_vars

cb == _breakers[TheSite]

(* ------------------------ breaker properties --------------------------- *)

\* C3: starting from Closed with a zero failure counter, after fewer than
\* failure_threshold consecutive record_failure calls (no record_success in
\* between) the breaker is still Closed, and the failure_threshold-th such call
\* finds it Closed and leaves it Open.
C3_OpensAtThreshold ==
    hist.fails >= 0 =>
        /\ hist.fails < cb.config.failure_threshold => cb.state = CLOSED
        /\ hist.fails >= cb.config.failure_threshold => cb.state # CLOSED
        /\ (hist.op = "record_failure" /\ hist.fails = cb.config.failure_threshold)
              => (hist.from = CLOSED /\ cb.state = OPEN)

C3_Witness ==
    /\ hist.op = "record_failure"
    /\ cb.config.failure_threshold >= 2
    /\ hist.fails = cb.config.failure_threshold
    /\ cb.state = OPEN

C4_LookupMovesToHalfOpen ==
    (hist.op \in {"is_call_permitted", "state"} /\ hist.from = OPEN /\ hist.elapsed) =>
        (cb.state = HALF_OPEN /\ cb.successes = 0 /\ hist.ret = TRUE)

\* C4: a lookup (is_call_permitted or a read of state) that finds the breaker
\* Open with recovery_timeout elapsed since the last failure leaves it HalfOpen
\* with a zero half-open success counter and permits the call; the passing of
\* time alone changes no breaker.
C4_LazyReset ==
    /\ []C4_LookupMovesToHalfOpen
    /\ [][now' # now => _breakers' = _breakers]_vars

\* a breaker that was reopened by a failed trial is moved to HalfOpen again by
\* is_call_permitted
C4_Witness ==
    /\ hist.op = "is_call_permitted"
    /\ hist.from = OPEN
    /\ hist.elapsed
    /\ cb.state = HALF_OPEN
    /\ cb.successes = 0
    /\ cb.failures >= 2

\* C5 as claimed: a record_failure that finds the breaker Open with
\* recovery_timeout elapsed leaves it HalfOpen.
C5_FailureMovesToHalfOpen ==
    (hist.op = "record_failure" /\ hist.from = OPEN /\ hist.elapsed) => cb.state = HALF_OPEN

\* C5 amended: a record_failure that finds the breaker Open with
\* recovery_timeout elapsed leaves it Open.
C5_FailureKeepsOpen ==
    (hist.op = "record_failure" /\ hist.from = OPEN /\ hist.elapsed) => cb.state = OPEN

C5_Witness ==
    /\ hist.op = "record_failure"
    /\ hist.from = OPEN
    /\ hist.elapsed
    /\ cb.state = OPEN

\* C6: a record_failure that finds the breaker HalfOpen leaves it Open,
\* whatever the half-open success counter and failure_threshold are.
C6_TrialFailureReopens ==
    (hist.op = "record_failure" /\ hist.from = HALF_OPEN) => cb.state = OPEN

C6_Witness ==
    /\ hist.op = "record_failure"
    /\ hist.from = HALF_OPEN
    /\ cb.successes >= 1
    /\ cb.state = OPEN

\* C7: of the record_success calls made since the breaker entered HalfOpen,
\* the success_threshold-th leaves it Closed with a zero failure counter and
\* every earlier one leaves it HalfOpen.
C7_ClosesAtSuccessThreshold ==
    (hist.op = "record_success" /\ hist.from = HALF_OPEN) =>
        /\ hist.succs >= 1
        /\ hist.succs <= cb.config.success_threshold
        /\ hist.succs = cb.config.success_threshold => (cb.state = CLOSED /\ cb.failures = 0)
        /\ hist.succs < cb.config.success_threshold => cb.state = HALF_OPEN

C7_Witness ==
    /\ hist.op = "record_success"
    /\ hist.from = HALF_OPEN
    /\ cb.config.success_threshold >= 2
    /\ hist.succs = cb.config.success_threshold
    /\ cb.state = CLOSED

\* C8: is_call_permitted answers false exactly when it finds the breaker Open
\* with less than recovery_timeout elapsed since the last failure, and then it
\* changes no field of the breaker.
C8_DeniedIffOpenAndNotElapsed ==
    hist.op = "is_call_permitted" =>
        /\ hist.ret = FALSE <=> (hist.from = OPEN /\ ~hist.elapsed)
        /\ hist.ret = FALSE => hist.same

C8_Witness ==
    /\ hist.op = "is_call_permitted"
    /\ hist.ret = FALSE
    /\ hist.from = OPEN
    /\ cb.successes >= 1

\* C39: in every state of the breaker, whatever calls of record_success,
\* record_failure, is_call_permitted and state led to it: a Closed breaker
\* has fewer failures counted than failure_threshold; an Open breaker has a
\* last-failure time, so that once recovery_timeout has passed since then
\* the next lookup moves it to HalfOpen.
C39_BreakerInvariants ==
    /\ cb.state = CLOSED => cb.failures < cb.config.failure_threshold
    /\ cb.state = OPEN =>
          /\ cb.last_failure_time # None
          /\ now - cb.last_failure_time >= cb.config.recovery_timeout =>
                is_call_permitted(cb, now).b.state = HALF_OPEN

\* a breaker Closed again after a trial, with a failure counted since, below
\* the threshold
C39_Witness ==
    /\ cb.state = CLOSED
    /\ cb.successes >= cb.config.success_threshold
    /\ cb.failures = cb.config.failure_threshold - 1
    /\ cb.failures > 0
    /\ hist.op = "record_failure"

(* ------------------------------ SpecPool ------------------------------- *)
(* WebDriverPool.connection called by the threads, close_all by one more   *)
(* thread (the atexit hook or a shutdown path).  Each action is one access *)
(* to the shared state of the pool; _created += 1 and _created -= 1 are a  *)
(* read followed by a write.                                               *)

InitPool ==
    /\ NoBreakers
    /\ \E n \in 1..MaxPoolSize : WebDriverPool(n)
    /\ Runner(TRUE, [s \in Sites |-> NoSteps])
    /\ RestIdle

poolRest == <<now, _breakers, hist, runnerVars, restVars>>

\* connection(): driver = self.acquire(timeout); acquire checks _closed first
AcquireStart(t) ==
    /\ pc[t] = "idle"
    /\ released' = [released EXCEPT ![t] = 0]
    /\ exc' = [exc EXCEPT ![t] = FALSE]
    /\ driver' = [driver EXCEPT ![t] = 0]
    /\ IF _closed
       THEN /\ result' = [result EXCEPT ![t] = "acquire_raised"]
            /\ pc' = pc
       ELSE /\ result' = [result EXCEPT ![t] = "none"]
            /\ pc' = [pc EXCEPT ![t] = "get"]
    /\ UNCHANGED <<_max_size, _pool, _created, _closed, _lock, status, tmp, cpc>>
    /\ UNCHANGED poolRest

\* self._pool.get(timeout=timeout) returns the oldest idle driver
AcquireGet(t) ==
    /\ pc[t] = "get"
    /\ _pool # <<>>
    /\ driver' = [driver EXCEPT ![t] = Head(_pool)]
    /\ _pool' = Tail(_pool)
    /\ pc' = [pc EXCEPT ![t] = "probe"]
    /\ UNCHANGED <<_max_size, _created, _closed, _lock, status, tmp, exc, released,
                   result, cpc>>
    /\ UNCHANGED poolRest

\* self._pool.get(timeout=timeout) raises queue.Empty, which acquire passes over
AcquireGetEmpty(t) ==
    /\ pc[t] = "get"
    /\ _pool = <<>>
    /\ pc' = [pc EXCEPT ![t] = "lock"]
    /\ UNCHANGED <<_max_size, _pool, _created, _closed, _lock, status, driver, tmp, exc,
                   released, result, cpc>>
    /\ UNCHANGED poolRest

\* _ = driver.current_url: a live driver is returned, a dead one is quit
AcquireProbe(t) ==
    /\ pc[t] = "probe"
    /\ IF status[driver[t]] = "alive"
       THEN /\ pc' = [pc EXCEPT ![t] = "body"]
            /\ status' = status
       ELSE /\ status' = [status EXCEPT ![driver[t]] = "quit"]
            /\ pc' = [pc EXCEPT ![t] = "dec_read"]
    /\ UNCHANGED <<_max_size, _pool, _created, _closed, _lock, driver, tmp, exc,
                   released, result, cpc>>
    /\ UNCHANGED poolRest

\* self._created -= 1 outside the lock: the read ...
AcquireDecRead(t) ==
    /\ pc[t] = "dec_read"
    /\ tmp' = [tmp EXCEPT ![t] = _created]
    /\ pc' = [pc EXCEPT ![t] = "dec_write"]
    /\ UNCHANGED <<_max_size, _pool, _created, _closed, _lock, status, driver, exc,
                   released, result, cpc>>
    /\ UNCHANGED poolRest

\* ... and the write
AcquireDecWrite(t) ==
    /\ pc[t] = "dec_write"
    /\ _created' = tmp[t] - 1
    /\ pc' = [pc EXCEPT ![t] = "lock"]
    /\ UNCHANGED <<_max_size, _pool, _closed, _lock, status, driver, tmp, exc,
                   released, result, cpc>>
    /\ UNCHANGED poolRest

\* the limit tested one too high
AcquireLock_NoLimit(t) ==
    /\ pc[t] = "lock"
    /\ _lock = Free
    /\ IF _created < _max_size + 1
       THEN /\ _lock' = t
            /\ pc' = [pc EXCEPT ![t] = "factory"]
       ELSE /\ _lock' = Free
            /\ pc' = [pc EXCEPT ![t] = "get2"]
    /\ UNCHANGED <<_max_size, _pool, _created, _closed, status, driver, tmp, exc,
                   released, result, cpc>>
    /\ UNCHANGED poolRest

\* with self._lock: if self._created < self._max_size; at the limit the lock
\* is given back at once and the thread goes on to the second get
AcquireLock(t) ==
    /\ pc[t] = "lock"
    /\ _lock = Free
    /\ IF _created < _max_size
       THEN /\ _lock' = t
            /\ pc' = [pc EXCEPT ![t] = "factory"]
       ELSE /\ _lock' = Free
            /\ pc' = [pc EXCEPT ![t] = "get2"]
    /\ UNCHANGED <<_max_size, _pool, _created, _closed, status, driver, tmp, exc,
                   released, result, cpc>>
    /\ UNCHANGED poolRest

\* driver = self._factory() returns a new driver; the read of _created += 1
AcquireFactory(t) ==
    /\ pc[t] = "factory"
    /\ \E h \in 1..MaxHandles :
          /\ status[h] = "none"
          /\ \A g \in 1..(h - 1) : status[g] # "none"
          /\ status' = [status EXCEPT ![h] = "alive"]
          /\ driver' = [driver EXCEPT ![t] = h]
    /\ tmp' = [tmp EXCEPT ![t] = _created]
    /\ pc' = [pc EXCEPT ![t] = "inc_write"]
    /\ UNCHANGED <<_max_size, _pool, _created, _closed, _lock, exc, released, result, cpc>>
    /\ UNCHANGED poolRest

\* self._factory() raises: the with statement gives the lock back, acquire raises
AcquireFactoryRaises(t) ==
    /\ pc[t] = "factory"
    /\ _lock' = Free
    /\ result' = [result EXCEPT ![t] = "acquire_raised"]
    /\ pc' = [pc EXCEPT ![t] = "idle"]
    /\ UNCHANGED <<_max_size, _pool, _created, _closed, status, driver, tmp, exc,
                   released, cpc>>
    /\ UNCHANGED poolRest

\* the write of _created += 1; return driver leaves the with block
AcquireIncWrite(t) ==
    /\ pc[t] = "inc_write"
    /\ _created' = tmp[t] + 1
    /\ _lock' = Free
    /\ pc' = [pc EXCEPT ![t] = "body"]
    /\ UNCHANGED <<_max_size, _pool, _closed, status, driver, tmp, exc, released,
                   result, cpc>>
    /\ UNCHANGED poolRest

\* at the limit: driver = self._pool.get(timeout=timeout), returned unprobed
AcquireGet2(t) ==
    /\ pc[t] = "get2"
    /\ _pool # <<>>
    /\ driver' = [driver EXCEPT ![t] = Head(_pool)]
    /\ _pool' = Tail(_pool)
    /\ pc' = [pc EXCEPT ![t] = "body"]
    /\ UNCHANGED <<_max_size, _created, _closed, _lock, status, tmp, exc, released,
                   result, cpc>>
    /\ UNCHANGED poolRest

\* at the limit and nothing comes back in time: queue.Empty leaves acquire
AcquireGet2Empty(t) ==
    /\ pc[t] = "get2"
    /\ _pool = <<>>
    /\ result' = [result EXCEPT ![t] = "acquire_raised"]
    /\ pc' = [pc EXCEPT ![t] = "idle"]
    /\ UNCHANGED <<_max_size, _pool, _created, _closed, _lock, status, driver, tmp, exc,
                   released, cpc>>
    /\ UNCHANGED poolRest

\* connection(): try: yield driver, finally: self.release(driver).  The body of
\* the caller's with block completes or raises; either way release is entered.
connection_NoFinally(t, raised) ==
    /\ exc' = [exc EXCEPT ![t] = raised]
    /\ IF raised
       THEN /\ pc' = [pc EXCEPT ![t] = "idle"]
            /\ result' = [result EXCEPT ![t] = "raised"]
       ELSE /\ pc' = [pc EXCEPT ![t] = "release"]
            /\ result' = result

connection(t, raised) ==
    /\ exc' = [exc EXCEPT ![t] = raised]
    /\ pc' = [pc EXCEPT ![t] = "release"]
    /\ result' = result

ConnectionBody(t) ==
    /\ pc[t] = "body"
    /\ \E raised \in BOOLEAN : connection(t, raised)
    /\ UNCHANGED <<_max_size, _pool, _created, _closed, _lock, status, driver, tmp,
                   released, cpc>>
    /\ UNCHANGED poolRest

\* how the connection call of t ends once release has returned
Returned(t) == IF exc[t] THEN "raised" ELSE "returned"

\* release(): if self._closed: driver.quit(); return
ReleaseStart(t) ==
    /\ pc[t] = "release"
    /\ IF _closed
       THEN /\ status' = [status EXCEPT ![driver[t]] = "quit"]
            /\ released' = [released EXCEPT ![t] = released[t] + 1]
            /\ result' = [result EXCEPT ![t] = Returned(t)]
            /\ pc' = [pc EXCEPT ![t] = "idle"]
       ELSE /\ pc' = [pc EXCEPT ![t] = "rel_put"]
            /\ UNCHANGED <<status, released, result>>
    /\ UNCHANGED <<_max_size, _pool, _created, _closed, _lock, driver, tmp, exc, cpc>>
    /\ UNCHANGED poolRest

\* _ = driver.current_url; self._pool.put_nowait(driver); a dead driver and a
\* full queue both end in except: driver.quit()
ReleasePut(t) ==
    /\ pc[t] = "rel_put"
    /\ released' = [released EXCEPT ![t] = released[t] + 1]
    /\ IF status[driver[t]] = "alive" /\ Len(_pool) < _max_size
       THEN /\ _pool' = Append(_pool, driver[t])
            /\ status' = status
            /\ result' = [result EXCEPT ![t] = Returned(t)]
            /\ pc' = [pc EXCEPT ![t] = "idle"]
       ELSE /\ status' = [status EXCEPT ![driver[t]] = "quit"]
            /\ _pool' = _pool
            /\ result' = result
            /\ pc' = [pc EXCEPT ![t] = "rel_dec_read"]
    /\ UNCHANGED <<_max_size, _created, _closed, _lock, driver, tmp, exc, cpc>>
    /\ UNCHANGED poolRest

\* with self._lock: self._created -= 1, the read ...
ReleaseDecRead(t) ==
    /\ pc[t] = "rel_dec_read"
    /\ _lock = Free
    /\ _lock' = t
    /\ tmp' = [tmp EXCEPT ![t] = _created]
    /\ pc' = [pc EXCEPT ![t] = "rel_dec_write"]
    /\ UNCHANGED <<_max_size, _pool, _created, _closed, status, driver, exc, released,
                   result, cpc>>
    /\ UNCHANGED poolRest

\* ... and the write, after which the lock is given back and release returns
ReleaseDecWrite(t) ==
    /\ pc[t] = "rel_dec_write"
    /\ _created' = tmp[t] - 1
    /\ _lock' = Free
    /\ result' = [result EXCEPT ![t] = Returned(t)]
    /\ pc' = [pc EXCEPT ![t] = "idle"]
    /\ UNCHANGED <<_max_size, _pool, _closed, status, driver, tmp, exc, released, cpc>>
    /\ UNCHANGED poolRest

\* close_all(): self._closed = True
CloseAllStart ==
    /\ cpc = "idle"
    /\ _closed' = TRUE
    /\ cpc' = "drain"
    /\ UNCHANGED <<_max_size, _pool, _created, _lock, status, pc, driver, tmp, exc,
                   released, result>>
    /\ UNCHANGED poolRest

\* driver = self._pool.get_nowait(); driver.quit()
CloseAllDrain ==
    /\ cpc = "drain"
    /\ _pool # <<>>
    /\ status' = [status EXCEPT ![Head(_pool)] = "quit"]
    /\ _pool' = Tail(_pool)
    /\ UNCHANGED <<_max_size, _created, _closed, _lock, pc, driver, tmp, exc,
                   released, result, cpc>>
    /\ UNCHANGED poolRest

\* except queue.Empty: break
CloseAllEmpty ==
    /\ cpc = "drain"
    /\ _pool = <<>>
    /\ cpc' = "reset"
    /\ UNCHANGED <<_max_size, _pool, _created, _closed, _lock, status, pc, driver, tmp,
                   exc, released, result>>
    /\ UNCHANGED poolRest

\* self._created = 0, without the lock
CloseAllReset ==
    /\ cpc = "reset"
    /\ _created' = 0
    /\ cpc' = "idle"
    /\ UNCHANGED <<_max_size, _pool, _closed, _lock, status, pc, driver, tmp, exc,
                   released, result>>
    /\ UNCHANGED poolRest

\* a browser stops answering: from now on driver.current_url raises
DriverDies(h) ==
    /\ status[h] = "alive"
    /\ status' = [status EXCEPT ![h] = "dead"]
    /\ UNCHANGED <<_max_size, _pool, _created, _closed, _lock, pc, driver, tmp, exc,
                   released, result, cpc>>
    /\ UNCHANGED poolRest

NextPool ==
    \/ \E t \in Threads :
          \/ AcquireStart(t)
          \/ AcquireGet(t)
          \/ AcquireGetEmpty(t)
          \/ AcquireProbe(t)
          \/ AcquireDecRead(t)
          \/ AcquireDecWrite(t)
          \/ AcquireLock(t)
          \/ AcquireFactory(t)
          \/ AcquireFactoryRaises(t)
          \/ AcquireIncWrite(t)
          \/ AcquireGet2(t)
          \/ AcquireGet2Empty(t)
          \/ ConnectionBody(t)
          \/ ReleaseStart(t)
          \/ ReleasePut(t)
          \/ ReleaseDecRead(t)
          \/ ReleaseDecWrite(t)
    \/ CloseAllStart
    \/ CloseAllDrain
    \/ CloseAllEmpty
    \/ CloseAllReset
    \/ \E h \in 1..MaxHandles : DriverDies(h)

SpecPool == InitPool /\ [][NextPool]_vars

(* -------------------------- pool properties ---------------------------- *)

\* the threads that were handed a driver by acquire and have not yet called release
Outstanding == {t \in Threads : pc[t] = "body"}

\* C1: the number of drivers checked out to callers never exceeds max_size.
C1_OutstandingWithinMax == Cardinality(Outstanding) <= _max_size

\* the threads that have a driver in hand: taken from the queue or made by the
\* factory, and not yet put back or quit
Holding == {t \in Threads : pc[t] \in {"probe", "body", "release", "rel_put"}}

\* C23: in a pool of max size 1 that was not closed, two callers never hold a
\* driver at the same time, so the second caller is given none while the first
\* holds one; and a caller waiting at the limit while nobody else is in the
\* pool's code finds the released driver in the idle queue (its get succeeds)
\* unless the driver was quit as broken.
C23_SecondWaitsThenSucceeds ==
    (_max_size = 1 /\ ~_closed) =>
        /\ Cardinality(Holding) <= 1
        /\ Cardinality(Outstanding) <= 1
        /\ \A t \in Threads :
              (pc[t] = "get2" /\ \A u \in Threads \ {t} : pc[u] = "idle") =>
                  (_pool # <<>> \/ _created = 0)

\* the second caller holds the live driver the first caller has released
C23_Witness ==
    /\ _max_size = 1
    /\ ~_closed
    /\ \E t, u \in Threads :
          /\ t # u
          /\ pc[t] = "idle"
          /\ result[t] = "returned"
          /\ released[t] = 1
          /\ pc[u] = "body"
          /\ driver[u] = driver[t]
          /\ status[driver[u]] = "alive"
          /\ _created = 1

\* C24: whenever close_all has returned and no release is under way, the idle
\* queue of the closed pool is empty.
C24_ClosedPoolHoldsNothing ==
    (_closed /\ cpc = "idle" /\ \A t \in Threads : pc[t] \in {"idle", "body"}) =>
        _pool = <<>>

\* C33: every step that changes _created is taken by a thread that holds
\* the lock of the pool, so that no update to the counter is lost.
C33_CreatedChangesUnderLock ==
    [][_created' # _created => _lock # Free]_vars

\* C34: whenever acquire hands a thread a driver that was idle in the pool,
\* from the first get or from the second, that driver has answered the
\* probe driver.current_url.
C34_IdleHandlePassedProbe ==
    [][\A t \in Threads :
          (pc[t] \in {"probe", "get2"} /\ pc'[t] = "body") =>
              status[driver'[t]] = "alive"]_vars

(* ----------------------------- SpecRunner ------------------------------ *)
(* process_site called again and again by one worker.                      *)
(* The session is taken through BrowserManager.session: with pooling from  *)
(* the WebDriverPool the manager has just built (the pool actions above,   *)
(* run by the worker), without pooling from _create_driver.                *)

\* BrowserManager.__init__: pool_size
PoolSizeDefault == 5

StepLists ==
    {<<[frames |-> 0]>>, <<[frames |-> 1]>>, <<[frames |-> 0], [frames |-> 1]>>}

Programs == {[login |-> l, steps |-> st] : l \in BOOLEAN, st \in StepLists}

\* the stage of a step that fails: the rate-limit wait, driver.get, a frame
\* switch, one of script / click / waits, the extraction of a field
StepFailures == {"none", "rate", "navigate", "frame", "body", "field"}

\* FramesNavigator.context around a block that raises or not: whether the
\* exception leaves the with statement.  With no frame entered the finally
\* clause returns, and the generator ends without re-raising.
context_Reraises(n, raised) == raised

context(n, raised) == IF n = 0 THEN FALSE ELSE raised

\* SiteScraper._exec_step when stage f fails: whether it raises, and what it
\* returns otherwise
_exec_step(blk, f) ==
    IF f = "none" THEN [raised |-> FALSE, value |-> "data"]
    ELSE IF f \in {"rate", "navigate", "frame"} THEN [raised |-> TRUE, value |-> "None"]
    ELSE [raised |-> context(blk.frames, TRUE), value |-> "None"]

InitRunner ==
    /\ NoBreakers
    /\ WebDriverPool(PoolSizeDefault)
    /\ \E pooling \in BOOLEAN, programs \in [Sites -> Programs] : Runner(pooling, programs)
    /\ RestIdle

runnerRest == <<hist, cpc, enable_pooling, prog, restVars>>

\* CircuitBreakerRegistry.get
get(s) == IF s \in DOMAIN _breakers THEN _breakers[s] ELSE CircuitBreaker(DefaultConfig)

\* _breakers with the breaker of site s replaced or added
Registered(s, b) == [x \in DOMAIN _breakers \cup {s} |-> IF x = s THEN b ELSE _breakers[x]]

\* process_site: the breaker gate
ProcessSiteGate_Ungated(w, s) ==
    LET r == is_call_permitted(get(s), now)
    IN  /\ rpc[w] = "idle"
        /\ get(s).failures <= MaxSiteFailures
        /\ _breakers' = Registered(s, r.b)
        /\ inv' = [inv EXCEPT ![w] = [NoInvocation EXCEPT
                        !.site = s, !.prior = streak[s],
                        !.gate = IF r.ret THEN "permitted" ELSE "denied"]]
        /\ rpc' = [rpc EXCEPT ![w] = "manager"]
        /\ UNCHANGED <<now, streak, poolVars>>
        /\ UNCHANGED runnerRest

ProcessSiteGate(w, s) ==
    LET r == is_call_permitted(get(s), now)
    IN  /\ rpc[w] = "idle"
        /\ get(s).failures <= MaxSiteFailures
        /\ _breakers' = Registered(s, r.b)
        /\ inv' = [inv EXCEPT ![w] = [NoInvocation EXCEPT
                        !.site = s, !.prior = streak[s],
                        !.gate = IF r.ret THEN "permitted" ELSE "denied"]]
        /\ rpc' = [rpc EXCEPT ![w] = IF r.ret THEN "manager" ELSE "denied"]
        /\ UNCHANGED <<now, streak, poolVars>>
        /\ UNCHANGED runnerRest

\* the call is denied: the result names circuit_breaker.state, read now
ProcessSiteDenied(w) ==
    LET s == inv[w].site
        r == state(get(s), now)
    IN  /\ rpc[w] = "denied"
        /\ _breakers' = Registered(s, r.b)
        /\ inv' = [inv EXCEPT ![w].outcome = "CircuitBreakerOpen"]
        /\ rpc' = [rpc EXCEPT ![w] = "done"]
        /\ UNCHANGED <<now, streak, poolVars>>
        /\ UNCHANGED runnerRest

\* manager = BrowserManager(...): with pooling a new WebDriverPool is built
BrowserManager(w) ==
    /\ rpc[w] = "manager"
    /\ rpc' = [rpc EXCEPT ![w] = "session"]
    /\ inv' = [inv EXCEPT ![w].attempted = TRUE]
    /\ result' = [result EXCEPT ![w] = "pending"]
    /\ released' = [released EXCEPT ![w] = 0]
    /\ exc' = [exc EXCEPT ![w] = FALSE]
    /\ driver' = [driver EXCEPT ![w] = 0]
    /\ status' = [h \in 1..MaxHandles |-> "none"]
    /\ _max_size' = PoolSizeDefault
    /\ _pool' = <<>>
    /\ _created' = 0
    /\ _closed' = FALSE
    /\ _lock' = Free
    /\ UNCHANGED <<now, _breakers, streak, pc, tmp>>
    /\ UNCHANGED runnerRest

\* the worker is inside self._pool.connection(): the pool actions it runs
PoolStep(w) ==
    /\ enable_pooling
    /\ \/ /\ rpc[w] = "session"
          /\ \/ result[w] = "pending" /\ AcquireStart(w)
             \/ AcquireGetEmpty(w)
             \/ AcquireLock(w)
             \/ AcquireFactory(w)
             \/ AcquireFactoryRaises(w)
             \/ AcquireIncWrite(w)
       \/ /\ rpc[w] \in {"exit_ok", "exit_fail"}
          /\ \/ ReleaseStart(w)
             \/ ReleasePut(w)
             \/ ReleaseDecRead(w)
             \/ ReleaseDecWrite(w)

\* session() without a pool: driver = self._create_driver(), which may raise
SessionCreate(w) ==
    /\ ~enable_pooling
    /\ rpc[w] = "session"
    /\ result[w] = "pending"
    /\ \/ /\ status' = [status EXCEPT ![1] = "alive"]
          /\ driver' = [driver EXCEPT ![w] = 1]
          /\ pc' = [pc EXCEPT ![w] = "body"]
          /\ result' = [result EXCEPT ![w] = "none"]
       \/ /\ result' = [result EXCEPT ![w] = "acquire_raised"]
          /\ UNCHANGED <<status, driver, pc>>
    /\ UNCHANGED <<now, _breakers, _max_size, _pool, _created, _closed, _lock, tmp, exc,
                   released, rpc, inv, streak>>
    /\ UNCHANGED runnerRest

\* session() without a pool: try: yield driver, finally: driver.quit()
session_NoFinally(t, raised) ==
    /\ exc' = [exc EXCEPT ![t] = raised]
    /\ IF raised
       THEN /\ pc' = [pc EXCEPT ![t] = "idle"]
            /\ result' = [result EXCEPT ![t] = "raised"]
       ELSE /\ pc' = [pc EXCEPT ![t] = "quit"]
            /\ result' = result

session(t, raised) ==
    /\ exc' = [exc EXCEPT ![t] = raised]
    /\ pc' = [pc EXCEPT ![t] = "quit"]
    /\ result' = result

SessionQuit(w) ==
    /\ ~enable_pooling
    /\ rpc[w] \in {"exit_ok", "exit_fail"}
    /\ pc[w] = "quit"
    /\ status' = [status EXCEPT ![driver[w]] = "quit"]
    /\ released' = [released EXCEPT ![w] = released[w] + 1]
    /\ result' = [result EXCEPT ![w] = Returned(w)]
    /\ pc' = [pc EXCEPT ![w] = "idle"]
    /\ UNCHANGED <<now, _breakers, _max_size, _pool, _created, _closed, _lock, driver, tmp,
                   exc, rpc, inv, streak>>
    /\ UNCHANGED runnerRest

\* control leaves the block of with manager.session() as driver
LeaveWith(w, raised) ==
    IF enable_pooling THEN connection(w, raised) ELSE session(w, raised)

\* with manager.session() as driver: the driver has been handed over
SessionEntered(w) ==
    /\ rpc[w] = "session"
    /\ pc[w] = "body"
    /\ inv' = [inv EXCEPT ![w].sessions = inv[w].sessions + 1]
    /\ rpc' = [rpc EXCEPT ![w] = IF prog[inv[w].site].login THEN "login" ELSE "base"]
    /\ UNCHANGED <<now, _breakers, streak, poolVars>>
    /\ UNCHANGED runnerRest

\* manager.session() raised before handing a driver over
SessionFailed(w) ==
    /\ rpc[w] = "session"
    /\ pc[w] = "idle"
    /\ result[w] = "acquire_raised"
    /\ inv' = [inv EXCEPT ![w].cause = "session"]
    /\ rpc' = [rpc EXCEPT ![w] = "except"]
    /\ UNCHANGED <<now, _breakers, streak, poolVars>>
    /\ UNCHANGED runnerRest

\* AuthFlow(...).login(...) returns or raises
Login(w) ==
    /\ rpc[w] = "login"
    /\ \E raised \in BOOLEAN :
          /\ inv' = [inv EXCEPT ![w].login = TRUE,
                                ![w].cause = IF raised THEN "login" ELSE "none"]
          /\ IF raised
             THEN /\ LeaveWith(w, TRUE)
                  /\ rpc' = [rpc EXCEPT ![w] = "exit_fail"]
             ELSE /\ rpc' = [rpc EXCEPT ![w] = "base"]
                  /\ UNCHANGED <<exc, pc, result>>
    /\ UNCHANGED <<now, _breakers, streak, _max_size, _pool, _created, _closed,
                   _lock, status, driver, tmp, released>>
    /\ UNCHANGED runnerRest

\* SiteScraper.run: driver.get(base_url) returns or raises
RunBase(w) ==
    /\ rpc[w] = "base"
    /\ \E raised \in BOOLEAN :
          IF raised
          THEN /\ inv' = [inv EXCEPT ![w].cause = "base"]
               /\ LeaveWith(w, TRUE)
               /\ rpc' = [rpc EXCEPT ![w] = "exit_fail"]
          ELSE /\ inv' = [inv EXCEPT ![w].k = 1]
               /\ rpc' = [rpc EXCEPT ![w] = "step"]
               /\ UNCHANGED <<exc, pc, result>>
    /\ UNCHANGED <<now, _breakers, streak, _max_size, _pool, _created, _closed,
                   _lock, status, driver, tmp, released>>
    /\ UNCHANGED runnerRest

\* SiteScraper.run: results[step.name] = self._exec_step(step) for the next step
RunStep(w) ==
    LET steps == prog[inv[w].site].steps
        step == steps[inv[w].k]
    IN  /\ rpc[w] = "step"
        /\ \E f \in StepFailures :
              LET r == _exec_step(step, f)
              IN  /\ f = "frame" => step.frames > 0
                  /\ IF r.raised
                     THEN /\ inv' = [inv EXCEPT ![w].steps = inv[w].steps + 1,
                                                ![w].cause = f]
                          /\ LeaveWith(w, TRUE)
                          /\ rpc' = [rpc EXCEPT ![w] = "exit_fail"]
                     ELSE /\ inv' = [inv EXCEPT
                                ![w].steps = inv[w].steps + 1,
                                ![w].nones = inv[w].nones + (IF r.value = "None" THEN 1 ELSE 0),
                                ![w].k = inv[w].k + 1]
                          /\ rpc' = [rpc EXCEPT ![w] =
                                        IF inv[w].k = Len(steps) THEN "success" ELSE "step"]
                          /\ UNCHANGED <<exc, pc, result>>
        /\ UNCHANGED <<now, _breakers, streak, _max_size, _pool, _created, _closed,
                       _lock, status, driver, tmp, released>>
        /\ UNCHANGED runnerRest

\* circuit_breaker.record_success(); return {"site": ..., "data": data}
RecordSuccessAndReturn(w) ==
    LET s == inv[w].site
    IN  /\ rpc[w] = "success"
        /\ _breakers' = Registered(s, record_success(get(s)))
        /\ inv' = [inv EXCEPT ![w].rec_success = inv[w].rec_success + 1]
        /\ LeaveWith(w, FALSE)
        /\ rpc' = [rpc EXCEPT ![w] = "exit_ok"]
        /\ UNCHANGED <<now, streak, _max_size, _pool, _created, _closed,
                       _lock, status, driver, tmp, released>>
        /\ UNCHANGED runnerRest

\* the session is released and the data result reaches the caller
ProcessSiteReturns(w) ==
    /\ rpc[w] = "exit_ok"
    /\ pc[w] = "idle"
    /\ inv' = [inv EXCEPT ![w].outcome = "data"]
    /\ streak' = [streak EXCEPT ![inv[w].site] = 0]
    /\ rpc' = [rpc EXCEPT ![w] = "done"]
    /\ UNCHANGED <<now, _breakers, poolVars>>
    /\ UNCHANGED runnerRest

\* except Exception: circuit_breaker.record_failure(); raise
ProcessSiteExcept(w) ==
    LET s == inv[w].site
    IN  /\ \/ rpc[w] = "except"
           \/ rpc[w] = "exit_fail" /\ pc[w] = "idle"
        /\ _breakers' = Registered(s, record_failure(get(s), now))
        /\ inv' = [inv EXCEPT ![w].rec_failure = inv[w].rec_failure + 1,
                              ![w].outcome = "raised"]
        /\ streak' = [streak EXCEPT ![s] = IF inv[w].cause = "field" THEN streak[s] + 1 ELSE 0]
        /\ rpc' = [rpc EXCEPT ![w] = "done"]
        /\ UNCHANGED <<now, poolVars>>
        /\ UNCHANGED runnerRest

\* the caller has the result or the exception; manager, driver and the other
\* locals of the call are gone
ProcessSiteOver(w) ==
    /\ rpc[w] = "done"
    /\ rpc' = [rpc EXCEPT ![w] = "idle"]
    /\ inv' = [inv EXCEPT ![w] = NoInvocation]
    /\ _max_size' = PoolSizeDefault
    /\ _pool' = <<>>
    /\ _created' = 0
    /\ _closed' = FALSE
    /\ _lock' = Free
    /\ status' = [h \in 1..MaxHandles |-> "none"]
    /\ driver' = [driver EXCEPT ![w] = 0]
    /\ tmp' = [tmp EXCEPT ![w] = 0]
    /\ exc' = [exc EXCEPT ![w] = FALSE]
    /\ released' = [released EXCEPT ![w] = 0]
    /\ result' = [result EXCEPT ![w] = "none"]
    /\ UNCHANGED <<now, _breakers, streak, pc>>
    /\ UNCHANGED runnerRest

\* half of the default recovery_timeout passes: between two calls of
\* process_site, or between the denial and the read of the state it reports
Elapse ==
    /\ \A w \in Workers : rpc[w] \in {"idle", "denied"}
    /\ now < MaxElapse * (DefaultConfig.recovery_timeout \div 2)
    /\ now' = now + DefaultConfig.recovery_timeout \div 2
    /\ UNCHANGED <<_breakers, hist, poolVars, runnerVars, restVars>>

\* the browser of the session dies before release probes it
HeldDriverDies ==
    \E w \in Workers :
        /\ enable_pooling
        /\ pc[w] = "release"
        /\ DriverDies(driver[w])

NextRunner ==
    \/ \E w \in Workers :
          \/ \E s \in Sites : ProcessSiteGate(w, s)
          \/ ProcessSiteDenied(w)
          \/ BrowserManager(w)
          \/ PoolStep(w)
          \/ SessionCreate(w)
          \/ SessionQuit(w)
          \/ SessionEntered(w)
          \/ SessionFailed(w)
          \/ Login(w)
          \/ RunBase(w)
          \/ RunStep(w)
          \/ RecordSuccessAndReturn(w)
          \/ ProcessSiteReturns(w)
          \/ ProcessSiteExcept(w)
          \/ ProcessSiteOver(w)
    \/ Elapse
    \/ HeldDriverDies

SpecRunner == InitRunner /\ [][NextRunner]_vars

(* ---------------------------- SpecSessions ----------------------------- *)
(* The runs of SpecPool together with the runs of SpecRunner: every way a  *)
(* session is handed out, by a shared pool under concurrent close_all, by  *)
(* the pool of one process_site call, and without a pool.                  *)

\* SpecPool runs no site program
PoolRun == \A s \in Sites : prog[s] = NoSteps

InitSessions == InitPool \/ InitRunner

NextSessions ==
    \/ PoolRun /\ NextPool
    \/ ~PoolRun /\ NextRunner

SpecSessions == InitSessions /\ [][NextSessions]_vars

(* ------------------------- session properties -------------------------- *)

\* between the hand-over of the driver and the end of the with block
InBody(w) == rpc[w] \in {"login", "base", "step", "success"}

\* C2: a driver handed out by session() / connection() is not released while
\* the body of the with block runs, and once the with statement has been left,
\* normally or by an exception, release has disposed of it exactly once: it
\* was either returned to the queue or quit.
C2_ReleasedExactlyOnce ==
    /\ \A t \in Threads :
          /\ released[t] <= 1
          /\ pc[t] = "body" => released[t] = 0
          /\ result[t] \in {"returned", "raised"} => released[t] = 1
    /\ \A w \in Workers :
          /\ inv[w].sessions <= 1
          /\ InBody(w) => (inv[w].sessions = 1 /\ released[w] = 0)
          /\ rpc[w] = "done" => released[w] = inv[w].sessions
          /\ (rpc[w] = "done" /\ inv[w].sessions = 1) =>
                (status[driver[w]] = "quit") # (driver[w] \in {_pool[i] : i \in DOMAIN _pool})

\* a process_site call whose login raised has given its driver back to the pool
C2_Witness ==
    \E w \in Workers :
        /\ rpc[w] = "done"
        /\ inv[w].outcome = "raised"
        /\ inv[w].cause = "login"
        /\ released[w] = 1
        /\ _pool = <<driver[w]>>

(* -------------------------- runner properties -------------------------- *)

\* C9: when three process_site calls in a row for a site have failed on a
\* field that cannot be extracted, the fourth call, made before any recovery
\* timeout can have elapsed, ends in the circuit-open result and neither
\* builds a manager nor takes a session.
C9_FourthCallIsCircuitOpen ==
    \A w \in Workers :
        (rpc[w] = "done" /\ inv[w].prior = 3 /\ now < DefaultConfig.recovery_timeout) =>
            /\ inv[w].outcome = "CircuitBreakerOpen"
            /\ ~inv[w].attempted
            /\ inv[w].sessions = 0

\* C10: a process_site call ends in the circuit-open result exactly when the
\* gate denied it, and such a call has built no manager, taken no session, run
\* neither login nor any step and recorded nothing on the breaker.
C10_DeniedCallDoesNothing ==
    \A w \in Workers :
        /\ rpc[w] = "done" => (inv[w].outcome = "CircuitBreakerOpen" <=> inv[w].gate = "denied")
        /\ inv[w].gate = "denied" =>
              /\ rpc[w] \in {"denied", "done"}
              /\ ~inv[w].attempted
              /\ inv[w].sessions = 0
              /\ ~inv[w].login
              /\ inv[w].steps = 0
              /\ inv[w].rec_success = 0
              /\ inv[w].rec_failure = 0
              /\ pc[w] = "idle"

C10_Witness ==
    \E w \in Workers :
        /\ rpc[w] = "done"
        /\ inv[w].gate = "denied"
        /\ inv[w].outcome = "CircuitBreakerOpen"
        /\ get(inv[w].site).failures = DefaultConfig.failure_threshold

\* C28: a process_site call that is over has handed its caller a result (the
\* data or a structured error); it has not raised.
C28_OutcomeIsReturned ==
    \A w \in Workers :
        rpc[w] = "done" => inv[w].outcome \in {"data", "CircuitBreakerOpen", "error"}

\* C38: a process_site call that passed the gate and is over has recorded
\* exactly one event on the breaker of its site: record_success when login
\* and every step went well and the call returned a data result, and only
\* then; record_failure otherwise.
C38_OneBreakerEventPerCall ==
    \A w \in Workers :
        (rpc[w] = "done" /\ inv[w].gate = "permitted") =>
            /\ inv[w].rec_success + inv[w].rec_failure = 1
            /\ inv[w].rec_success = 1 <=>
                  /\ inv[w].outcome = "data"
                  /\ inv[w].cause = "none"
                  /\ inv[w].nones = 0

(* ----------------------------- SpecScraper ----------------------------- *)
(* One SiteScraper.run over a site program: the base navigation, then      *)
(* _exec_step for each step.  Each action is one stage of _exec_step (one  *)
(* command sent to the driver or one wait), which succeeds or fails; the   *)
(* frame scope is FramesNavigator.context, split into its entry loop and   *)
(* its finally clause.                                                     *)

\* StepBlock: which optional stages are configured, how many frames and fields
StepBlocks ==
    [goto_url : BOOLEAN, frames : 0..MaxFrames, frame_exit : {"default", "parent"},
     execute_js : BOOLEAN, click_xpath : BOOLEAN, wait_xpath : BOOLEAN,
     wait_url_contains : BOOLEAN, fields : 0..MaxFields]

\* the steps of the programs of more than one step: a click and one field
ShortSteps ==
    {s \in StepBlocks : /\ s.click_xpath /\ s.fields = 1
                        /\ ~s.execute_js /\ ~s.wait_xpath /\ ~s.wait_url_contains}

RECURSIVE StepSeqs(_)
StepSeqs(n) ==
    IF n = 1 THEN {<<s>> : s \in ShortSteps}
    ELSE {Append(q, s) : q \in StepSeqs(n - 1), s \in ShortSteps}

\* SiteConfig: base_url empty or not, steps
SiteConfigs ==
    [base_url : BOOLEAN,
     steps : {<<s>> : s \in StepBlocks} \cup UNION {StepSeqs(n) : n \in 2..MaxSteps}]

\* SiteScraper(config, waiter, logger), run() just called, driver at the top level
SiteScraper(config) ==
    /\ _config = config
    /\ spc = "run"
    /\ sk = 0
    /\ entered = 0
    /\ depth = 0
    /\ raising = "none"
    /\ data = 0
    /\ retv = "none"
    /\ results = <<>>
    /\ trace = <<>>
    /\ run_ret = "none"

InitScraper ==
    /\ NoBreakers
    /\ WebDriverPool(1)
    /\ Runner(FALSE, [s \in Sites |-> NoSteps])
    /\ NoBucket
    /\ NoRetry
    /\ NoMain
    /\ NoMore
    /\ \E config \in SiteConfigs : SiteScraper(config)

scraperRest == <<breakerVars, poolVars, runnerVars, _config, bucketVars, retryVars, mainVars,
                 moreVars>>

\* the step _exec_step is executing
step == _config.steps[sk]

\* one command or wait: the step it belongs to, whether it succeeded, the value
\* of entered when it was made, the frame depth of the driver before and after
Command(op, ok, d) ==
    [step |-> sk, op |-> op, ok |-> ok, entered |-> entered, from |-> depth, depth |-> d]

\* switch_to.parent_frame() and switch_to.default_content() on a driver d frames deep
parent_frame(d) == IF d > 0 THEN d - 1 ELSE 0

default_content(d) == 0

context_finally_AlwaysDefault(exit_to, d) == default_content(d)

\* FramesNavigator.context, finally clause with entered > 0: the frame depth after it
context_finally(exit_to, d) ==
    IF exit_to = "parent" THEN parent_frame(d) ELSE default_content(d)

\* a stage of _exec_step outside the frame scope that is not configured, or
\* has succeeded, hands over to stage next; if it raises, to the finally clause
\* of _exec_step
Outside(configured, op, kind, next, d) ==
    IF ~configured
    THEN /\ spc' = next
         /\ UNCHANGED <<depth, raising, trace>>
    ELSE \E ok \in BOOLEAN :
            /\ trace' = Append(trace, Command(op, ok, IF ok THEN d ELSE depth))
            /\ depth' = IF ok THEN d ELSE depth
            /\ raising' = IF ok THEN raising ELSE kind
            /\ spc' = IF ok THEN next ELSE "finally"

\* a stage inside the with block: if it raises, the exception goes through the
\* finally clause of FramesNavigator.context first
Inside(configured, op, kind, next) ==
    IF ~configured
    THEN /\ spc' = next
         /\ UNCHANGED <<raising, trace>>
    ELSE \E ok \in BOOLEAN :
            /\ trace' = Append(trace, Command(op, ok, depth))
            /\ raising' = IF ok THEN raising ELSE kind
            /\ spc' = IF ok THEN next ELSE "exit"

\* SiteScraper.run: driver.get(base_url), under capture.on_failure, which re-raises
RunBaseUrl ==
    /\ spc = "run"
    /\ IF ~_config.base_url
       THEN /\ spc' = "loop"
            /\ UNCHANGED <<depth, trace, run_ret>>
       ELSE \E ok \in BOOLEAN :
               /\ trace' = Append(trace, Command("get_base", ok, IF ok THEN 0 ELSE depth))
               /\ depth' = IF ok THEN 0 ELSE depth
               /\ spc' = IF ok THEN "loop" ELSE "end"
               /\ run_ret' = IF ok THEN run_ret ELSE "WebDriverException"
    /\ UNCHANGED <<sk, entered, raising, data, retv, results>>
    /\ UNCHANGED scraperRest

\* SiteScraper.run: for step in self._config.steps, and return results after the last
RunFor ==
    /\ spc = "loop"
    /\ IF sk < Len(_config.steps)
       THEN /\ sk' = sk + 1
            /\ spc' = "rate"
            /\ entered' = 0
            /\ data' = 0
            /\ retv' = "none"
            /\ raising' = "none"
            /\ UNCHANGED run_ret
       ELSE /\ run_ret' = "returned"
            /\ spc' = "end"
            /\ UNCHANGED <<sk, entered, data, retv, raising>>
    /\ UNCHANGED <<depth, results, trace>>
    /\ UNCHANGED scraperRest

\* a wait for the token that runs out and lets the step go on
StageRateLimit_Unthrottled ==
    /\ spc = "rate"
    /\ \E ok \in BOOLEAN :
          trace' = Append(trace, Command("wait_for_tokens", ok, depth))
    /\ spc' = "goto"
    /\ UNCHANGED <<depth, raising>>
    /\ UNCHANGED <<sk, entered, data, retv, results, run_ret>>
    /\ UNCHANGED scraperRest

\* _exec_step: if not self._rate_limiter.wait_for_tokens(...): raise ExtractionError
StageRateLimit ==
    /\ spc = "rate"
    /\ Outside(TRUE, "wait_for_tokens", "ExtractionError", "goto", depth)
    /\ UNCHANGED <<sk, entered, data, retv, results, run_ret>>
    /\ UNCHANGED scraperRest

\* _exec_step: if step.goto_url: self._waiter.driver.get(url)
StageGoto ==
    /\ spc = "goto"
    /\ Outside(step.goto_url, "get", "WebDriverException", "enter", 0)
    /\ UNCHANGED <<sk, entered, data, retv, results, run_ret>>
    /\ UNCHANGED scraperRest

\* FramesNavigator.context: for spec in frames: self._switch_to_frame(spec); entered += 1
\* (the loop runs before the try statement of context)
ContextEnter ==
    /\ spc = "enter"
    /\ IF entered < step.frames
       THEN \E ok \in BOOLEAN :
               /\ trace' = Append(trace, Command("switch_to_frame", ok,
                                                 IF ok THEN depth + 1 ELSE depth))
               /\ depth' = IF ok THEN depth + 1 ELSE depth
               /\ entered' = IF ok THEN entered + 1 ELSE entered
               /\ raising' = IF ok THEN raising ELSE "FrameError"
               /\ spc' = IF ok THEN "enter" ELSE "finally"
       ELSE /\ spc' = "execute_js"
            /\ UNCHANGED <<depth, entered, raising, trace>>
    /\ UNCHANGED <<sk, data, retv, results, run_ret>>
    /\ UNCHANGED scraperRest

\* _exec_step: if step.execute_js: self._waiter.driver.execute_script(...)
StageExecuteJs ==
    /\ spc = "execute_js"
    /\ Inside(step.execute_js, "execute_script", "WebDriverException", "click")
    /\ UNCHANGED <<sk, entered, depth, data, retv, results, run_ret>>
    /\ UNCHANGED scraperRest

\* _exec_step: if step.click_xpath: self._safe_click(step.click_xpath)
StageClick ==
    /\ spc = "click"
    /\ Inside(step.click_xpath, "click", "ElementNotFoundError", "wait_xpath")
    /\ UNCHANGED <<sk, entered, depth, data, retv, results, run_ret>>
    /\ UNCHANGED scraperRest

\* _exec_step: if step.wait_xpath: self._waiter.visible(...)
StageWaitXpath ==
    /\ spc = "wait_xpath"
    /\ Inside(step.wait_xpath, "visible", "ElementNotFoundError", "wait_url_contains")
    /\ UNCHANGED <<sk, entered, depth, data, retv, results, run_ret>>
    /\ UNCHANGED scraperRest

\* _exec_step: if step.wait_url_contains: self._waiter.url_contains(...)
StageWaitUrl ==
    /\ spc = "wait_url_contains"
    /\ Inside(step.wait_url_contains, "url_contains", "TimeoutError", "fields")
    /\ UNCHANGED <<sk, entered, depth, data, retv, results, run_ret>>
    /\ UNCHANGED scraperRest

\* _exec_step: for field in step.fields: data[field.name] = self._extract_field(field),
\* any exception turned into ExtractionError; after the loop, return data
StageFields ==
    /\ spc = "fields"
    /\ IF data < step.fields
       THEN \E ok \in BOOLEAN :
               /\ trace' = Append(trace, Command("extract_field", ok, depth))
               /\ data' = IF ok THEN data + 1 ELSE data
               /\ raising' = IF ok THEN raising ELSE "ExtractionError"
               /\ spc' = IF ok THEN "fields" ELSE "exit"
               /\ UNCHANGED retv
       ELSE /\ retv' = "data"
            /\ spc' = "exit"
            /\ UNCHANGED <<data, raising, trace>>
    /\ UNCHANGED <<sk, entered, depth, results, run_ret>>
    /\ UNCHANGED scraperRest

\* FramesNavigator.context: the finally clause, reached when the with block of
\* _exec_step is left by return or by an exception
ContextFinally ==
    /\ spc = "exit"
    /\ IF entered = 0
       THEN UNCHANGED <<depth, trace>>
       ELSE LET d == context_finally(step.frame_exit, depth)
            IN  /\ trace' = Append(trace,
                        Command(IF step.frame_exit = "parent" THEN "parent_frame"
                                ELSE "default_content", TRUE, d))
                /\ depth' = d
    /\ raising' = IF context(entered, raising # "none") THEN raising ELSE "none"
    /\ spc' = "finally"
    /\ UNCHANGED <<sk, entered, data, retv, results, run_ret>>
    /\ UNCHANGED scraperRest

\* _exec_step: its finally clause (Metrics.record_step_execution), after which the
\* step returns to run, which stores the value, or raises through run
ExecStepFinally ==
    /\ spc = "finally"
    /\ IF raising # "none"
       THEN /\ run_ret' = raising
            /\ spc' = "end"
            /\ UNCHANGED results
       ELSE /\ results' = Append(results,
                                 IF retv = "data" THEN [value |-> "dict", fields |-> data]
                                 ELSE [value |-> "None", fields |-> 0])
            /\ spc' = "loop"
            /\ UNCHANGED run_ret
    /\ UNCHANGED <<sk, entered, depth, raising, data, retv, trace>>
    /\ UNCHANGED scraperRest

NextScraper ==
    \/ RunBaseUrl
    \/ RunFor
    \/ StageRateLimit
    \/ StageGoto
    \/ ContextEnter
    \/ StageExecuteJs
    \/ StageClick
    \/ StageWaitXpath
    \/ StageWaitUrl
    \/ StageFields
    \/ ContextFinally
    \/ ExecStepFinally

SpecScraper == InitScraper /\ [][NextScraper]_vars

(* -------------------------- scraper properties ------------------------- *)

\* stages 2 to 7 of a step: navigate, enter frames, script, click, the two waits
FatalStages ==
    {"get", "switch_to_frame", "execute_script", "click", "visible", "url_contains"}

\* the commands that leave a frame
ExitOps == {"parent_frame", "default_content"}

\* _exec_step for step k has returned or raised
Finished(k) == k < sk \/ (k = sk /\ spc \in {"loop", "end"})

\* C11: when navigate, a frame switch, the script, the click or one of the two
\* waits of a step fails, run never gets a result for that step, and the step
\* executes nothing after the failed stage but the frame exit.
C11_StageFailureIsFatal ==
    \A i \in 1..Len(trace) :
        (trace[i].op \in FatalStages /\ ~trace[i].ok) =>
            /\ Len(results) < trace[i].step
            /\ \A j \in (i + 1)..Len(trace) :
                  trace[j].step = trace[i].step => trace[j].op \in ExitOps

\* C12: the commands of run are in program order of their steps, and after the
\* first failed operation nothing of a later step is executed and run does not
\* return results.
C12_StopsAtFirstFailingStep ==
    /\ \A i, j \in 1..Len(trace) : i < j => trace[i].step <= trace[j].step
    /\ \A i \in 1..Len(trace) :
          ~trace[i].ok =>
              /\ \A j \in (i + 1)..Len(trace) : trace[j].step = trace[i].step
              /\ run_ret # "returned"

\* C13: a step that has entered a frame and is over has sent a frame exit
\* command after that entry.
C13_FrameExitOnEveryPath ==
    \A i \in 1..Len(trace) :
        (trace[i].op = "switch_to_frame" /\ trace[i].ok /\ Finished(trace[i].step)) =>
            \E j \in (i + 1)..Len(trace) :
                trace[j].step = trace[i].step /\ trace[j].op \in ExitOps

\* C14: a finished step without frames has sent no frame command, and what its
\* stages did is what run sees: the error if one failed, the extracted data if
\* none did.
C14_NoFramesIsNoOp ==
    \A k \in 1..Len(_config.steps) :
        (_config.steps[k].frames = 0 /\ Finished(k)) =>
            LET ops == {i \in 1..Len(trace) : trace[i].step = k}
            IN  /\ \A i \in ops : trace[i].op \notin ExitOps \cup {"switch_to_frame"}
                /\ (\E i \in ops : ~trace[i].ok) =>
                       Len(results) < k /\ run_ret \notin {"none", "returned"}
                /\ (\A i \in ops : trace[i].ok) =>
                       Len(results) >= k /\ results[k].value = "dict"

\* C15: the frame exit of a scope that entered two frames leaves the driver one
\* frame below where the scope began with exit_to "parent", and at the top-level
\* document with exit_to "default".
C15_ExitLevels ==
    \A i \in 1..Len(trace) :
        (trace[i].op \in ExitOps /\ trace[i].entered = 2) =>
            LET began == trace[i].from - trace[i].entered
            IN  IF _config.steps[trace[i].step].frame_exit = "parent"
                THEN trace[i].depth = began + 1
                ELSE trace[i].depth = 0

\* a run that began at the top level and left a scope of two frames both ways
C15_Witness ==
    \E i, j \in 1..Len(trace) :
        /\ trace[i].op = "parent_frame" /\ trace[i].entered = 2
        /\ trace[i].from = 2 /\ trace[i].depth = 1
        /\ trace[j].op = "default_content" /\ trace[j].entered = 2
        /\ trace[j].from >= 2 /\ trace[j].depth = 0

\* C27: every step begins with the wait for one rate-limit token, before any
\* other command of the step; when that wait times out the step executes
\* nothing else, run gets no result for it, and the step ends in an
\* ExtractionError that run raises.
C27_RateLimitTimeoutFailsStep ==
    \A i \in 1..Len(trace) :
        trace[i].step >= 1 =>
            /\ (i = 1 \/ trace[i - 1].step # trace[i].step) <=> trace[i].op = "wait_for_tokens"
            /\ (trace[i].op = "wait_for_tokens" /\ ~trace[i].ok) =>
                  /\ i = Len(trace)
                  /\ Len(results) < trace[i].step
                  /\ raising = "ExtractionError" \/ run_ret = "ExtractionError"
                  /\ Finished(trace[i].step) => run_ret = "ExtractionError"

\* the wait of the second step has timed out after a first step that ran its
\* stages, and run has raised
C27_Witness ==
    /\ spc = "end"
    /\ run_ret = "ExtractionError"
    /\ Len(results) = 1
    /\ Len(trace) >= 3
    /\ trace[Len(trace)].op = "wait_for_tokens"
    /\ ~trace[Len(trace)].ok
    /\ trace[Len(trace)].step = 2
    /\ _config.steps[2].fields > 0

\* C29: when run has returned, results holds one entry per step of the
\* program, and each entry is the mapping of that step with a value for every
\* declared field.
C29_OneMappingPerStep ==
    run_ret = "returned" =>
        /\ Len(results) = Len(_config.steps)
        /\ \A k \in 1..Len(results) :
              /\ results[k].value = "dict"
              /\ results[k].fields = _config.steps[k].fields

(* ------------------------------ SpecBucket ----------------------------- *)
(* One TokenBucket: consume calls by any thread (consume holds the lock    *)
(* of the bucket from its first statement to its last, so it is one step), *)
(* one thread inside wait_for_tokens, and the monotonic clock.  A token is *)
(* Unit units and the fill rate is in units per tick, so that fractions of *)
(* a token occur; the rounding of float arithmetic is not modelled.        *)

Min(a, b) == IF a <= b THEN a ELSE b

_refill_Uncapped(b, t) ==
    [b EXCEPT !.tokens = b.tokens + (t - b.last_update) * b.fill_rate,
              !.last_update = t]

\* TokenBucket._refill at time t
_refill(b, t) ==
    [b EXCEPT !.tokens = Min(b.capacity * Unit,
                             b.tokens + (t - b.last_update) * b.fill_rate),
              !.last_update = t]

consume_Overdraw(b, t, tokens) ==
    LET r == _refill(b, t)
    IN  IF r.tokens + Unit >= tokens * Unit
        THEN [b |-> [r EXCEPT !.tokens = r.tokens - tokens * Unit], ret |-> TRUE]
        ELSE [b |-> r, ret |-> FALSE]

\* TokenBucket.consume(tokens) at time t: the bucket afterwards and the value returned
consume(b, t, tokens) ==
    LET r == _refill(b, t)
    IN  IF r.tokens >= tokens * Unit
        THEN [b |-> [r EXCEPT !.tokens = r.tokens - tokens * Unit], ret |-> TRUE]
        ELSE [b |-> r, ret |-> FALSE]

\* the timeouts handed to wait_for_tokens, in ticks
Timeouts == {None, 1, 2}

InitBucket ==
    /\ NoBreakers
    /\ WebDriverPool(1)
    /\ Runner(FALSE, [s \in Sites |-> NoSteps])
    /\ NoScraper
    /\ NoRetry
    /\ NoMain
    /\ NoMore
    /\ monotonic = 0
    /\ \E capacity \in 1..MaxCapacity, fill_rate \in 1..MaxRate :
          bucket = TokenBucket(capacity, fill_rate, 0)
    /\ bhist = NoConsume
    /\ wpc = "idle"
    /\ wloc = NoWait

bucketRest == <<breakerVars, poolVars, runnerVars, scraperVars, retryVars, mainVars,
                moreVars>>

\* the call consume(tokens) made now, and its record
Consumed(tokens, op) ==
    LET r == consume(bucket, monotonic, tokens)
    IN  /\ bucket' = r.b
        /\ bhist' = [op |-> op, n |-> tokens, found |-> bucket, at |-> monotonic,
                     ret |-> r.ret]

\* time passes
BucketTick ==
    /\ monotonic < MaxClock
    /\ monotonic' = monotonic + 1
    /\ UNCHANGED <<bucket, bhist, wpc, wloc>>
    /\ UNCHANGED bucketRest

\* a thread calls consume(tokens)
Consume ==
    /\ \E tokens \in 1..(bucket.capacity + 1) : Consumed(tokens, "consume")
    /\ UNCHANGED <<monotonic, wpc, wloc>>
    /\ UNCHANGED bucketRest

\* wait_for_tokens(tokens, timeout): start = time.monotonic()
WaitForTokens ==
    /\ wpc = "idle"
    /\ \E tokens \in 1..(bucket.capacity + 1), timeout \in Timeouts :
          wloc' = [tokens |-> tokens, timeout |-> timeout, start |-> monotonic,
                   wake |-> 0, ret |-> "none"]
    /\ wpc' = "consume"
    /\ UNCHANGED <<monotonic, bucket, bhist>>
    /\ UNCHANGED bucketRest

\* wait_for_tokens: if self.consume(tokens): return True
WaitConsume ==
    /\ wpc = "consume"
    /\ Consumed(wloc.tokens, "wait_for_tokens")
    /\ IF consume(bucket, monotonic, wloc.tokens).ret
       THEN /\ wpc' = "idle"
            /\ wloc' = [wloc EXCEPT !.ret = "True"]
       ELSE /\ wpc' = "timeout"
            /\ UNCHANGED wloc
    /\ UNCHANGED monotonic
    /\ UNCHANGED bucketRest

\* the timeout never tested
WaitTimeout_Never ==
    /\ wpc = "timeout"
    /\ wpc' = "sleep"
    /\ wloc' = [wloc EXCEPT !.wake = monotonic + 1]
    /\ UNCHANGED <<monotonic, bucket, bhist>>
    /\ UNCHANGED bucketRest

\* wait_for_tokens: if timeout is not None and (time.monotonic() - start) >= timeout:
\* return False; otherwise time.sleep(0.1), one tick
WaitTimeout ==
    /\ wpc = "timeout"
    /\ IF wloc.timeout # None /\ monotonic - wloc.start >= wloc.timeout
       THEN /\ wpc' = "idle"
            /\ wloc' = [wloc EXCEPT !.ret = "False"]
       ELSE /\ wpc' = "sleep"
            /\ wloc' = [wloc EXCEPT !.wake = monotonic + 1]
    /\ UNCHANGED <<monotonic, bucket, bhist>>
    /\ UNCHANGED bucketRest

\* wait_for_tokens: time.sleep returns, back to the head of the loop
WaitWake ==
    /\ wpc = "sleep"
    /\ monotonic >= wloc.wake
    /\ wpc' = "consume"
    /\ UNCHANGED <<monotonic, bucket, bhist, wloc>>
    /\ UNCHANGED bucketRest

NextBucket ==
    \/ BucketTick
    \/ Consume
    \/ WaitForTokens
    \/ WaitConsume
    \/ WaitTimeout
    \/ WaitWake

SpecBucket == InitBucket /\ [][NextBucket]_vars

\* the clock goes on, and the thread inside wait_for_tokens is scheduled
SpecBucketFair ==
    /\ SpecBucket
    /\ WF_vars(BucketTick)
    /\ WF_vars(WaitConsume)
    /\ WF_vars(WaitTimeout)
    /\ WF_vars(WaitWake)

(* --------------------------- bucket properties ------------------------- *)

\* C16: whatever consume and wait_for_tokens calls have been made and however
\* much time has passed, the token count is at least zero and at most capacity.
C16_TokensWithinBounds ==
    /\ bucket.tokens >= 0
    /\ bucket.tokens <= bucket.capacity * Unit

\* a wait_for_tokens call that slept found a bucket that the time passed would
\* have filled beyond its capacity, and took all the tokens of the full bucket
C16_Witness ==
    /\ bhist.op = "wait_for_tokens"
    /\ bhist.ret
    /\ wloc.wake > 0
    /\ bhist.found.tokens + (bhist.at - bhist.found.last_update) * bhist.found.fill_rate
          > bucket.capacity * Unit
    /\ bhist.n = bucket.capacity
    /\ bucket.tokens = 0

\* the token count a consume call checks: what it found plus the refill for the
\* time since the last update, capped at capacity
Refilled ==
    Min(bhist.found.capacity * Unit,
        bhist.found.tokens + (bhist.at - bhist.found.last_update) * bhist.found.fill_rate)

\* C17: a consume(n) call returns true exactly when the refilled count is at
\* least n; it then leaves the refilled count minus n, and otherwise the
\* refilled count.
C17_ConsumeIffEnough ==
    bhist.op # "none" =>
        /\ bhist.ret <=> Refilled >= bhist.n * Unit
        /\ bhist.ret => bucket.tokens = Refilled - bhist.n * Unit
        /\ ~bhist.ret => bucket.tokens = Refilled

\* consume was refused with a fraction of a token short, after a refill
C17_Witness ==
    /\ bhist.op = "consume"
    /\ ~bhist.ret
    /\ bhist.at > bhist.found.last_update
    /\ Refilled > bhist.found.tokens
    /\ Refilled = bhist.n * Unit - 1
    /\ bucket.tokens = Refilled

\* C31: wait_for_tokens returns True only in the step in which its own
\* consume(n) succeeded and took the n tokens; it returns False only with a
\* timeout that has elapsed, in a step that leaves the bucket as it is, and
\* its failed consume calls take nothing; and a call with a finite timeout
\* that the clock can outlast returns.
C31_WaitTerminates ==
    /\ [][(wloc'.ret = "True" /\ wloc.ret # "True") =>
             /\ wpc = "consume"
             /\ bhist'.op = "wait_for_tokens"
             /\ bhist'.ret
             /\ bhist'.n = wloc.tokens
             /\ bucket'.tokens = _refill(bucket, monotonic).tokens - wloc.tokens * Unit]_vars
    /\ [][(wloc'.ret = "False" /\ wloc.ret # "False") =>
             /\ wloc.timeout # None
             /\ monotonic - wloc.start >= wloc.timeout
             /\ wpc = "timeout"
             /\ bucket' = bucket]_vars
    /\ [][(wpc = "consume" /\ wpc' = "timeout") =>
             bucket'.tokens = _refill(bucket, monotonic).tokens]_vars
    /\ (wpc # "idle" /\ wloc.timeout # None /\ wloc.start + wloc.timeout <= MaxClock)
          ~> (wpc = "idle" /\ wloc.ret \in {"True", "False"})

\* a call for more tokens than the bucket can hold has slept and then
\* returned False, the bucket full
C31_Witness ==
    /\ wpc = "idle"
    /\ wloc.ret = "False"
    /\ wloc.tokens > bucket.capacity
    /\ wloc.wake > 0
    /\ bucket.tokens = bucket.capacity * Unit

(* ----------------------------- SpecConsumers --------------------------- *)
(* The threads of one site share one TokenBucket (RateLimiter.get hands    *)
(* every caller of a site the same object).  Here consume is taken apart   *)
(* into its statements, each thread at its own position, with the lock of  *)
(* the bucket between them.                                                *)

InitConsumers ==
    /\ NoBreakers
    /\ WebDriverPool(1)
    /\ Runner(FALSE, [s \in Sites |-> NoSteps])
    /\ NoScraper
    /\ NoRetry
    /\ NoMain
    /\ NoEnhanced
    /\ NoUrl
    /\ NoAdaptive
    /\ monotonic = 0
    /\ \E capacity \in 1..MaxCapacity, fill_rate \in 1..MaxRate :
          bucket = TokenBucket(capacity, fill_rate, 0)
    /\ bhist = NoConsume
    /\ wpc = "idle"
    /\ wloc = NoWait
    /\ bucket_lock = "free"
    /\ kpc = [t \in Threads |-> "idle"]
    /\ kloc = [t \in Threads |-> [tokens |-> 0, ret |-> FALSE]]
    /\ granted = 0

consumersRest == <<breakerVars, poolVars, runnerVars, scraperVars, retryVars, mainVars,
                   enhancedVars, urlVars, adaptiveVars, bhist, wpc, wloc>>

\* thread t calls consume(tokens)
ConsumeCall(t) ==
    /\ kpc[t] = "idle"
    /\ \E tokens \in 1..(bucket.capacity + 1) :
          kloc' = [kloc EXCEPT ![t] = [tokens |-> tokens, ret |-> FALSE]]
    /\ kpc' = [kpc EXCEPT ![t] = "lock"]
    /\ UNCHANGED <<monotonic, bucket, bucket_lock, granted>>
    /\ UNCHANGED consumersRest

\* a lock that lets every thread in
ConsumeLock_Open(t) ==
    /\ kpc[t] = "lock"
    /\ bucket_lock' = t
    /\ kpc' = [kpc EXCEPT ![t] = "refill"]
    /\ UNCHANGED <<monotonic, bucket, kloc, granted>>
    /\ UNCHANGED consumersRest

\* consume: with self._lock, entered
ConsumeLock(t) ==
    /\ kpc[t] = "lock"
    /\ bucket_lock = "free"
    /\ bucket_lock' = t
    /\ kpc' = [kpc EXCEPT ![t] = "refill"]
    /\ UNCHANGED <<monotonic, bucket, kloc, granted>>
    /\ UNCHANGED consumersRest

\* consume: self._refill()
ConsumeRefill(t) ==
    /\ kpc[t] = "refill"
    /\ bucket' = _refill(bucket, monotonic)
    /\ kpc' = [kpc EXCEPT ![t] = "test"]
    /\ UNCHANGED <<monotonic, bucket_lock, kloc, granted>>
    /\ UNCHANGED consumersRest

\* consume: if self.tokens >= tokens
ConsumeTest(t) ==
    /\ kpc[t] = "test"
    /\ kpc' = [kpc EXCEPT ![t] = IF bucket.tokens >= kloc[t].tokens * Unit
                                 THEN "subtract" ELSE "unlock"]
    /\ UNCHANGED <<monotonic, bucket, bucket_lock, kloc, granted>>
    /\ UNCHANGED consumersRest

\* consume: self.tokens -= tokens; return True
ConsumeSubtract(t) ==
    /\ kpc[t] = "subtract"
    /\ bucket' = [bucket EXCEPT !.tokens = bucket.tokens - kloc[t].tokens * Unit]
    /\ kloc' = [kloc EXCEPT ![t].ret = TRUE]
    /\ granted' = granted + kloc[t].tokens
    /\ kpc' = [kpc EXCEPT ![t] = "unlock"]
    /\ UNCHANGED <<monotonic, bucket_lock>>
    /\ UNCHANGED consumersRest

\* consume: with self._lock, left, and the value returned
ConsumeUnlock(t) ==
    /\ kpc[t] = "unlock"
    /\ bucket_lock' = "free"
    /\ kpc' = [kpc EXCEPT ![t] = "idle"]
    /\ UNCHANGED <<monotonic, bucket, kloc, granted>>
    /\ UNCHANGED consumersRest

NextConsumers ==
    \/ BucketTick
    \/ \E t \in Threads : ConsumeCall(t)
    \/ \E t \in Threads : ConsumeLock(t)
    \/ \E t \in Threads : ConsumeRefill(t)
    \/ \E t \in Threads : ConsumeTest(t)
    \/ \E t \in Threads : ConsumeSubtract(t)
    \/ \E t \in Threads : ConsumeUnlock(t)

SpecConsumers == InitConsumers /\ [][NextConsumers]_vars

\* C32: however the consume calls of the threads interleave, the tokens
\* granted and the tokens left in the bucket together never exceed the
\* capacity the bucket started with plus what the fill rate gives for the
\* time up to the last refill (so the tokens granted never exceed the
\* capacity plus the refill of the time elapsed), and the tokens in the
\* bucket stay between 0 and the capacity.
C32_NoTokenGrantedTwice ==
    /\ bucket.tokens >= 0
    /\ bucket.tokens <= bucket.capacity * Unit
    /\ granted * Unit + bucket.tokens
          <= bucket.capacity * Unit + bucket.last_update * bucket.fill_rate
    /\ granted * Unit <= bucket.capacity * Unit + monotonic * bucket.fill_rate

\* more tokens than the capacity have been granted, and a thread is waiting
\* for the lock while the other one, having passed the test, is about to
\* subtract
C32_Witness ==
    /\ granted > bucket.capacity
    /\ \E t, u \in Threads : kpc[t] = "lock" /\ kpc[u] = "subtract" /\ bucket_lock = u

(* ------------------------------ SpecRetry ------------------------------ *)
(* One call of a method decorated with selenium_retry, SiteScraper.        *)
(* _safe_click or _extract_field, FormAuthenticator._fill_field or         *)
(* _click_element, EnhancedSiteScraper._safe_click_sync: the retry loop    *)
(* calls the method, looks at how the attempt ended, asks the retry        *)
(* predicate about an exception, and returns, raises or sleeps.            *)
(* An attempt is the explicit wait of Waiter followed by the command on    *)
(* the element; each ends well or raises one of the Selenium exceptions.   *)

\* the classes an exception is an instance of
Mro(kind) ==
    IF kind \in {"TimeoutException", "StaleElementReferenceException",
                 "NoSuchElementException", "ElementClickInterceptedException",
                 "ElementNotInteractableException"}
    THEN {kind, "WebDriverException", "Exception"}
    ELSE IF kind \in {"ElementNotFoundError", "TimeoutError"}
    THEN {kind, "AutomationError", "Exception"}
    ELSE {kind, "Exception"} \ {"none"}

\* RETRYABLE_EXCEPTIONS is a frozenset of exception classes
RETRYABLE_EXCEPTIONS ==
    [container |-> "frozenset",
     types |-> {"TimeoutException", "StaleElementReferenceException",
                "NoSuchElementException", "ElementClickInterceptedException",
                "ElementNotInteractableException", "WebDriverException"}]

\* the builtin isinstance(e, classinfo): classinfo has to be a class or a tuple
\* of classes, anything else raises TypeError
isinstance(kind, classinfo) ==
    IF classinfo.container \in {"type", "tuple"}
    THEN IF Mro(kind) \cap classinfo.types # {} THEN "True" ELSE "False"
    ELSE "TypeError"

\* retry=retry_if_exception_type(RETRYABLE_EXCEPTIONS): the predicate is
\* lambda e: isinstance(e, exception_types), asked only about a failed attempt
retry_if_exception_type(kind) == isinstance(kind, RETRYABLE_EXCEPTIONS)

\* stop=stop_after_attempt(3)
stop_after_attempt(n) == n >= 3

\* JitteredExponentialWait(multiplier=0.5, min_wait=0.5, max_wait=4.0) before the
\* jitter, in hundredths of a second
JitteredExponentialWait(attempt) ==
    LET wait == Min(400, 50 * 2 ^ attempt)
    IN  IF wait < 50 THEN 50 ELSE wait

\* _add_jitter: the extremes and the middle of +/- 25 %, never below 0.1 s
_add_jitter(wait_time) ==
    {IF w < 10 THEN 10 ELSE w :
        w \in {wait_time - wait_time \div 4, wait_time, wait_time + wait_time \div 4}}

\* how WebDriverWait.until can end: the condition holds, the wait times out, or
\* the driver raises while polling
UntilOutcomes ==
    {"ok", "TimeoutException", "StaleElementReferenceException", "WebDriverException"}

\* Waiter.clickable / Waiter.visible: what the wait raises ("none": it returns the element)
Waiter(until) ==
    IF until = "ok" THEN "none"
    ELSE IF until = "TimeoutException" THEN "ElementNotFoundError"
    ELSE until

\* how the command on the element found can end: element.click() for _safe_click,
\* element.get_attribute / element.text for _extract_field
\* element.get_attribute / element.text for _extract_field, element.clear() and
\* element.send_keys(value) for _fill_field
CommandOutcomes(f) ==
    IF f \in {"_safe_click", "_click_element", "_safe_click_sync"}
    THEN {"ok", "ElementClickInterceptedException", "ElementNotInteractableException",
          "StaleElementReferenceException", "WebDriverException"}
    ELSE IF f = "_fill_field"
    THEN {"ok", "ElementNotInteractableException", "StaleElementReferenceException",
          "WebDriverException"}
    ELSE {"ok", "StaleElementReferenceException", "WebDriverException"}

\* the methods decorated with @selenium_retry
RetriedMethods ==
    {"_safe_click", "_extract_field", "_fill_field", "_click_element", "_safe_click_sync"}

InitRetry ==
    /\ NoBreakers
    /\ WebDriverPool(1)
    /\ Runner(FALSE, [s \in Sites |-> NoSteps])
    /\ NoScraper
    /\ NoBucket
    /\ NoMain
    /\ NoMore
    /\ fn \in RetriedMethods
    /\ tpc = "call"
    /\ attempt_number = 1
    /\ tlog = <<>>
    /\ surfaced = "none"

retryRest == <<breakerVars, poolVars, runnerVars, scraperVars, bucketVars, fn, mainVars,
               moreVars>>

\* the retry loop calls the wrapped method: the wait, then the command
RetryCall ==
    /\ tpc = "call"
    /\ \E until \in UntilOutcomes, cmd \in CommandOutcomes(fn) :
          LET raised == IF Waiter(until) # "none" THEN Waiter(until)
                        ELSE IF cmd = "ok" THEN "none" ELSE cmd
          IN  /\ until # "ok" => cmd = "ok"
              /\ tlog' = Append(tlog, [ev |-> "call", until |-> until,
                                       raised |-> raised, secs |-> 0])
    /\ tpc' = "outcome"
    /\ UNCHANGED <<attempt_number, surfaced>>
    /\ UNCHANGED retryRest

\* the retry loop after an attempt (BaseRetrying.iter): the value of an attempt
\* that did not raise is returned, the retry predicate is not asked; an
\* exception is handed to the predicate
RetryOutcome ==
    LET raised == tlog[Len(tlog)].raised
    IN  /\ tpc = "outcome"
        /\ IF raised = "none"
           THEN tpc' = "returned" /\ surfaced' = "value"
           ELSE tpc' = "predicate" /\ UNCHANGED surfaced
        /\ UNCHANGED <<attempt_number, tlog>>
        /\ UNCHANGED retryRest

\* self.retry(retry_state) on a failed attempt: an exception of the predicate
\* leaves the retry loop as it is; otherwise the attempt's own exception is
\* raised when it is not to be retried, or when stop says so (reraise=True),
\* and the loop sleeps in the remaining case
RetryPredicate ==
    LET raised == tlog[Len(tlog)].raised
        asked  == retry_if_exception_type(raised)
    IN  /\ tpc = "predicate"
        /\ IF asked = "TypeError"
           THEN tpc' = "raised" /\ surfaced' = "TypeError"
           ELSE IF asked = "False" \/ stop_after_attempt(attempt_number)
           THEN tpc' = "raised" /\ surfaced' = raised
           ELSE tpc' = "sleep" /\ UNCHANGED surfaced
        /\ UNCHANGED <<attempt_number, tlog>>
        /\ UNCHANGED retryRest

\* the retry loop sleeps for wait(retry_state) and starts the next attempt
RetrySleep ==
    /\ tpc = "sleep"
    /\ \E secs \in _add_jitter(JitteredExponentialWait(attempt_number)) :
          tlog' = Append(tlog, [ev |-> "sleep", until |-> "none", raised |-> "none",
                                secs |-> secs])
    /\ attempt_number' = attempt_number + 1
    /\ tpc' = "call"
    /\ UNCHANGED surfaced
    /\ UNCHANGED retryRest

\* RetrySleep is left out: the predicate raises for every exception it is
\* asked about, so the loop never gets to sleep
NextRetry ==
    \/ RetryCall
    \/ RetryOutcome
    \/ RetryPredicate

SpecRetry == InitRetry /\ [][NextRetry]_vars

(* --------------------------- retry properties -------------------------- *)

\* the attempts made so far
Calls == {i \in 1..Len(tlog) : tlog[i].ev = "call"}

\* C18: when every attempt of a call raised a retryable error and the call is
\* over, the method was called 3 times with one sleep between each two
\* consecutive attempts and none elsewhere, and the caller got the error of the
\* third attempt.
C18_ThreeAttemptsThenReraise ==
    (/\ tpc \in {"returned", "raised"}
     /\ \A i \in Calls : Mro(tlog[i].raised) \cap RETRYABLE_EXCEPTIONS.types # {}) =>
        /\ Len(tlog) = 5
        /\ Calls = {1, 3, 5}
        /\ tlog[2].ev = "sleep" /\ tlog[4].ev = "sleep"
        /\ tpc = "raised"
        /\ surfaced = tlog[5].raised

\* C19: a call that ended with the error of an explicit wait that timed out has
\* made 3 attempts.
C19_WaitTimeoutIsRetried ==
    (tpc = "raised" /\ tlog[Len(tlog)].until = "TimeoutException") =>
        Cardinality(Calls) = 3

\* C35: an attempt that raised an AutomationError (an error outside the
\* retryable classes) is the last event of the call: no sleep and no further
\* attempt follows it, the caller gets that very error, and when it was the
\* first attempt the method has been invoked exactly once.
C35_NonRetryableRaisedAtOnce ==
    \A i \in Calls :
        ("AutomationError" \in Mro(tlog[i].raised) /\ tpc \notin {"outcome", "predicate"}) =>
            /\ i = Len(tlog)
            /\ tpc = "raised"
            /\ surfaced = tlog[i].raised
            /\ i = 1 => Cardinality(Calls) = 1

(* ------------------------------- SpecMain ------------------------------ *)
(* main: the sites are submitted to a ThreadPoolExecutor of max_workers    *)
(* threads, the futures are collected with as_completed, and the results   *)
(* are written out.  The worker threads run process_site, of which only    *)
(* the way it ends matters here.  shutdown_event is set by the signal      *)
(* handler at any moment.                                                  *)

Max(a, b) == IF a >= b THEN a ELSE b

\* how a process_site call ends: it returns the data or the circuit-open
\* result, or raises an AutomationError or another exception
ProcessSiteOutcomes == {"data", "CircuitBreakerOpen", "AutomationError", "Exception"}

\* the sites whose future is in one of the given states
InState(states) == {s \in 1..Len(futures) : futures[s].state \in states}

InitMain ==
    /\ NoBreakers
    /\ WebDriverPool(1)
    /\ Runner(FALSE, [s \in Sites |-> NoSteps])
    /\ NoScraper
    /\ NoBucket
    /\ NoRetry
    /\ NoMore
    /\ shutdown_event = FALSE
    /\ jsonl \in BOOLEAN
    /\ nsites \in 0..MaxSites
    /\ \E w \in 1..MaxWorkers : max_workers = Min(w, Max(1, nsites))
    /\ futures = <<>>
    /\ mpc = "submit"
    /\ future = 0
    /\ yielded = {}
    /\ collected = <<>>
    /\ exit_code = None

mainRest == <<breakerVars, poolVars, runnerVars, scraperVars, bucketVars, retryVars,
              jsonl, nsites, max_workers, moreVars>>

\* the signal handler sets shutdown_event
Signal ==
    /\ mpc # "done"
    /\ ~shutdown_event
    /\ shutdown_event' = TRUE
    /\ UNCHANGED <<futures, mpc, future, yielded, collected, exit_code>>
    /\ UNCHANGED mainRest

\* main: futures = {executor.submit(process_site, site, ...): site.name for site in sites}
Submit ==
    /\ mpc = "submit"
    /\ IF Len(futures) < nsites
       THEN /\ futures' = Append(futures, [state |-> "PENDING", outcome |-> "none",
                                            at |-> 0])
            /\ UNCHANGED mpc
       ELSE /\ mpc' = "as_completed"
            /\ UNCHANGED futures
    /\ UNCHANGED <<shutdown_event, future, yielded, collected, exit_code>>
    /\ UNCHANGED mainRest

\* a thread of the executor takes the oldest queued work item
WorkerStart ==
    /\ Cardinality(InState({"RUNNING"})) < max_workers
    /\ \E s \in InState({"PENDING"}) :
          /\ \A r \in InState({"PENDING"}) : s <= r
          /\ futures' = [futures EXCEPT ![s].state = "RUNNING"]
    /\ UNCHANGED <<shutdown_event, mpc, future, yielded, collected, exit_code>>
    /\ UNCHANGED mainRest

\* process_site in a thread of the executor goes on to what it does next: past
\* the breaker's gate it acquires the session (at = 1), then SiteScraper.run
\* begins the steps one after the other (at = 1 + k); nothing on the way reads
\* shutdown_event
WorkerAdvance ==
    /\ \E s \in InState({"RUNNING"}) :
          /\ futures[s].at < 1 + MaxSteps
          /\ futures' = [futures EXCEPT ![s].at = @ + 1]
    /\ UNCHANGED <<shutdown_event, mpc, future, yielded, collected, exit_code>>
    /\ UNCHANGED mainRest

\* process_site returns or raises in a thread of the executor: the data after
\* the last step, CircuitBreakerOpen at the gate, an error anywhere; the thread
\* has left process_site, the future keeps no position
WorkerFinish ==
    /\ \E s \in InState({"RUNNING"}), o \in ProcessSiteOutcomes :
          /\ o = "data" => futures[s].at = 1 + MaxSteps
          /\ o = "CircuitBreakerOpen" => futures[s].at = 0
          /\ futures' = [futures EXCEPT ![s] = [state |-> "FINISHED", outcome |-> o,
                                                at |-> 0]]
    /\ UNCHANGED <<shutdown_event, mpc, future, yielded, collected, exit_code>>
    /\ UNCHANGED mainRest

\* main: for future in as_completed(futures): the next future that is done, or
\* the end of the loop when every future has been yielded
AsCompleted ==
    /\ mpc = "as_completed"
    /\ IF yielded = 1..Len(futures)
       THEN /\ mpc' = "exit"
            /\ UNCHANGED <<future, yielded>>
       ELSE \E s \in InState({"FINISHED", "CANCELLED"}) \ yielded :
               /\ future' = s
               /\ yielded' = yielded \cup {s}
               /\ mpc' = "is_set"
    /\ UNCHANGED <<shutdown_event, futures, collected, exit_code>>
    /\ UNCHANGED mainRest

\* main: if shutdown_event.is_set():
\*           executor.shutdown(wait=False, cancel_futures=True); break
IsSet ==
    /\ mpc = "is_set"
    /\ IF shutdown_event
       THEN /\ futures' = [s \in 1..Len(futures) |->
                              IF futures[s].state = "PENDING"
                              THEN [futures[s] EXCEPT !.state = "CANCELLED"]
                              ELSE futures[s]]
            /\ mpc' = "exit"
       ELSE /\ mpc' = "result"
            /\ UNCHANGED futures
    /\ UNCHANGED <<shutdown_event, future, yielded, collected, exit_code>>
    /\ UNCHANGED mainRest

\* the error of a site that is left to leave the loop instead of being caught
Result_Propagates ==
    /\ mpc = "result"
    /\ IF futures[future].outcome = "data"
       THEN /\ collected' = Append(collected, [site |-> future, kind |-> "data"])
            /\ mpc' = "as_completed"
            /\ UNCHANGED exit_code
       ELSE /\ mpc' = "exit"
            /\ exit_code' = 1
            /\ UNCHANGED collected
    /\ UNCHANGED <<shutdown_event, futures, future, yielded>>
    /\ UNCHANGED mainRest

\* main: result = future.result(), or format_error_result(site_name, e) for an
\* exception; results.append(result), or fp.write(...) with --jsonl, which may raise
Result ==
    /\ mpc = "result"
    /\ \E written \in BOOLEAN :
          /\ ~jsonl => written
          /\ IF written
             THEN /\ collected' = Append(collected, [site |-> future,
                                                     kind |-> futures[future].outcome])
                  /\ mpc' = "as_completed"
                  /\ UNCHANGED exit_code
             ELSE /\ mpc' = "exit"
                  /\ exit_code' = 1
                  /\ UNCHANGED collected
    /\ UNCHANGED <<shutdown_event, futures, future, yielded>>
    /\ UNCHANGED mainRest

\* main: the end of the with block of the executor, shutdown(wait=True): every
\* work item still queued is run and every thread joined
ExecutorExit ==
    /\ mpc = "exit"
    /\ InState({"PENDING", "RUNNING"}) = {}
    /\ IF jsonl
       THEN /\ mpc' = "done"
            /\ exit_code' = IF exit_code = 1 THEN 1 ELSE 0
       ELSE /\ mpc' = "write"
            /\ UNCHANGED exit_code
    /\ UNCHANGED <<shutdown_event, futures, future, yielded, collected>>
    /\ UNCHANGED mainRest

\* main: args.out.write_text(output_text); return 0, or return 1 when it raises
WriteText ==
    /\ mpc = "write"
    /\ \E written \in BOOLEAN : exit_code' = IF written THEN 0 ELSE 1
    /\ mpc' = "done"
    /\ UNCHANGED <<shutdown_event, futures, future, yielded, collected>>
    /\ UNCHANGED mainRest

NextMain ==
    \/ Signal
    \/ Submit
    \/ WorkerStart
    \/ WorkerAdvance
    \/ WorkerFinish
    \/ AsCompleted
    \/ IsSet
    \/ Result
    \/ ExecutorExit
    \/ WriteText

SpecMain == InitMain /\ [][NextMain]_vars

(* ---------------------------- main properties -------------------------- *)

\* the entries of the collected results that belong to site s
OutcomesOf(s) == {i \in 1..Len(collected) : collected[i].site = s}

\* C20: when main has returned 0, the collected results hold exactly one
\* outcome for every site that was submitted.
C20_OneOutcomePerSite ==
    (mpc = "done" /\ exit_code = 0) =>
        \A s \in 1..Len(futures) : Cardinality(OutcomesOf(s)) = 1

\* the outcomes of process_site that are exceptions
Raised == ProcessSiteOutcomes \ {"data"}

\* C21: a site whose process_site raised gets a structured error outcome and
\* takes no other site with it: reading the exception of a future appends
\* that site's error outcome and goes on with the loop (or, with --jsonl, the
\* write of that outcome fails and main returns 1), a queued site is
\* cancelled only by a shutdown signal, and when main has returned 0 without a
\* signal every submitted site has run and has exactly its own outcome
\* recorded.
C21_FailureIsIsolated ==
    /\ [][(mpc = "result" /\ futures[future].outcome \in Raised /\ mpc' # mpc) =>
             /\ futures' = futures
             /\ \/ /\ collected' = Append(collected, [site |-> future,
                                                      kind |-> futures[future].outcome])
                   /\ mpc' = "as_completed"
                \/ /\ jsonl
                   /\ exit_code' = 1]_vars
    /\ [][(\E s \in 1..Len(futures) :
               /\ futures[s].state # "CANCELLED"
               /\ futures'[s].state = "CANCELLED") => shutdown_event]_vars
    /\ []((mpc = "done" /\ exit_code = 0 /\ ~shutdown_event) =>
             \A s \in 1..Len(futures) :
                /\ futures[s].state = "FINISHED"
                /\ \E i \in 1..Len(collected) :
                      /\ OutcomesOf(s) = {i}
                      /\ collected[i].kind = futures[s].outcome)

\* main has returned 0 without a signal after a run of several sites in which
\* one raised and another returned its data
C21_Witness ==
    /\ mpc = "done"
    /\ exit_code = 0
    /\ ~shutdown_event
    /\ Len(futures) >= 2
    /\ \E i, j \in 1..Len(collected) :
          /\ i < j
          /\ collected[i].kind \in Raised
          /\ collected[j].kind = "data"

\* C22: once the shutdown signal is set no queued site is started, and no
\* running site acquires its session or begins another step.
C22_NothingBeginsAfterShutdown ==
    [][shutdown_event =>
          \A s \in 1..Len(futures) :
             /\ futures[s].state = "PENDING" => futures'[s].state # "RUNNING"
             /\ futures'[s].at <= futures[s].at]_vars

(* ----------------------------- SpecEnhanced ---------------------------- *)
(* The field extraction of one EnhancedSiteScraper._execute_step_async:    *)
(* the fields handed to AsyncFieldExtractor, serially or as one parallel   *)
(* group, each extracted by a _extract_field_sync call in a thread of the  *)
(* scraper's executor, inside the with block of FramesNavigator.context.   *)
(* Fields carry no timeout override, so that a parallel extraction has one *)
(* timeout group.                                                          *)

\* EnhancedSiteScraper.__init__: ThreadPoolExecutor(max_workers=max_workers)
ExecutorWorkers == 4

\* pydantic FieldConfig: required and default_value ("None" stands for None);
\* the validator rejects a default_value on a required field
FieldConfigs ==
    {f \in [required : BOOLEAN, default_value : {"None", "", "n/a"}] :
        f.required => f.default_value = "None"}

\* pydantic StepBlock, as far as the extraction reads it
EnhancedSteps ==
    [frames : 0..1, parallel_extraction : BOOLEAN,
     fields : UNION {[1..n -> FieldConfigs] : n \in 0..MaxTasks}]

\* _execute_step_async at "if step.parallel_extraction and len(step.fields) > 2"
InitEnhanced ==
    /\ NoBreakers
    /\ WebDriverPool(1)
    /\ Runner(FALSE, [s \in Sites |-> NoSteps])
    /\ NoScraper
    /\ NoBucket
    /\ NoRetry
    /\ NoMain
    /\ NoUrl
    /\ NoConsumers
    /\ NoAdaptive
    /\ estep \in EnhancedSteps
    /\ epc = IF estep.parallel_extraction /\ Len(estep.fields) > 2 THEN "gather"
             ELSE "serial"
    /\ tasks = [i \in 1..Len(estep.fields) |-> "pending"]
    /\ ek = 0
    /\ extracted = <<>>
    /\ eraise = "none"
    /\ eret = "none"

enhancedRest == <<breakerVars, poolVars, runnerVars, scraperVars, bucketVars, retryVars,
                  mainVars, estep, urlVars, consumerVars, adaptiveVars>>

\* the calls of _extract_field_sync that a thread of the executor is running
Running == {i \in 1..Len(tasks) : tasks[i] = "running"}

\* _extract_single_field: loop.run_in_executor(self._executor, self._extract_field_sync,
\* field): a thread of the executor begins the call.  The serial loop awaits one
\* field after the other; _extract_group_parallel creates the tasks of all
\* fields of the group before it awaits any
TaskStart(i) ==
    /\ tasks[i] = "pending"
    /\ \/ epc = "serial" /\ i = ek + 1
       \/ epc = "gather"
    /\ Cardinality(Running) < ExecutorWorkers
    /\ tasks' = [tasks EXCEPT ![i] = "running"]
    /\ UNCHANGED <<epc, ek, extracted, eraise, eret>>
    /\ UNCHANGED enhancedRest

\* _extract_field_sync returns the text or raises (the element does not show);
\* the thread ends its call whatever the coroutine does meanwhile
TaskDone(i) ==
    /\ tasks[i] = "running"
    /\ \E ok \in BOOLEAN : tasks' = [tasks EXCEPT ![i] = IF ok THEN "ok" ELSE "failed"]
    /\ UNCHANGED <<epc, ek, extracted, eraise, eret>>
    /\ UNCHANGED enhancedRest

\* _extract_group_parallel: await asyncio.wait_for(asyncio.gather(*tasks,
\* return_exceptions=True), timeout): every task is done, or the timeout
\* passes first and asyncio.TimeoutError is raised
Gather ==
    /\ epc = "gather"
    /\ IF \A i \in 1..Len(tasks) : tasks[i] \in {"ok", "failed"}
       THEN /\ epc' = "process"
            /\ UNCHANGED eraise
       ELSE /\ epc' = "exit"
            /\ eraise' = "TimeoutError"
    /\ UNCHANGED <<tasks, ek, extracted, eret>>
    /\ UNCHANGED enhancedRest

\* the body of "for field in fields" in _extract_fields_serial and of "for
\* field, result in zip(fields, results_list)" in _extract_group_parallel: the
\* value is stored; for an exception, "if field.required: raise", else
\* results[field.name] = field.default_value or "".  After the last field,
\* "return results", which _execute_step_async returns as data
StoreResult ==
    /\ epc \in {"serial", "process"}
    /\ IF ek = Len(estep.fields)
       THEN /\ epc' = "exit"
            /\ UNCHANGED <<ek, extracted, eraise>>
       ELSE LET field == estep.fields[ek + 1]
            IN  /\ tasks[ek + 1] \in {"ok", "failed"}
                /\ IF tasks[ek + 1] = "failed" /\ field.required
                   THEN /\ eraise' = "ExtractionError"
                        /\ epc' = "exit"
                        /\ UNCHANGED <<ek, extracted>>
                   ELSE /\ extracted' = Append(extracted,
                               IF tasks[ek + 1] = "ok" THEN "text"
                               ELSE IF field.default_value \in {"None", ""} THEN ""
                               ELSE field.default_value)
                        /\ ek' = ek + 1
                        /\ UNCHANGED <<epc, eraise>>
    /\ UNCHANGED <<tasks, eret>>
    /\ UNCHANGED enhancedRest

\* the with block of _execute_step_async is left, by "return data" or by the
\* exception: the finally clause of FramesNavigator.context decides whether the
\* exception goes on; a step whose exception does not go on returns None
ExecuteStepExit ==
    /\ epc = "exit"
    /\ eret' = IF eraise = "none" THEN "data"
               ELSE IF context(estep.frames, TRUE) THEN eraise
               ELSE "None"
    /\ epc' = "done"
    /\ UNCHANGED <<tasks, ek, extracted, eraise>>
    /\ UNCHANGED enhancedRest

NextEnhanced ==
    \/ \E i \in 1..MaxTasks : i <= Len(tasks) /\ TaskStart(i)
    \/ \E i \in 1..MaxTasks : i <= Len(tasks) /\ TaskDone(i)
    \/ Gather
    \/ StoreResult
    \/ ExecuteStepExit

SpecEnhanced == InitEnhanced /\ [][NextEnhanced]_vars

(* -------------------------- enhanced properties ------------------------ *)

\* C25: a failed field that is not required has its default_value, or the
\* empty string, as its value and the extraction goes on after it; the step
\* ends in the data of all its fields when no required field failed, and in
\* the error when the failure of a required field was met.
C25_RequiredFailsOptionalDefaults ==
    /\ \A i \in 1..Len(extracted) :
          tasks[i] = "failed" =>
              /\ ~estep.fields[i].required
              /\ extracted[i] = IF estep.fields[i].default_value = "None" THEN ""
                                ELSE estep.fields[i].default_value
    /\ epc = "done" =>
          /\ eraise = "none" => (eret = "data" /\ Len(extracted) = Len(estep.fields))
          /\ eraise = "ExtractionError" => eret = "ExtractionError"

Controls == {"\t"}

\* characters str.strip() removes at both ends
Whitespace == {" "}

\* the characters of a URL that follow "scheme://h"
TailChars == {"a", "/", "?", "#", "=", "&", "+", "%", "%20"} \cup Whitespace \cup Controls

\* the index of the first element of s that is in set, or 0
Find(s, set) ==
    IF \E i \in 1..Len(s) : s[i] \in set
    THEN CHOOSE i \in 1..Len(s) : s[i] \in set /\ \A j \in 1..(i - 1) : s[j] \notin set
    ELSE 0

\* s[i:], counting from 1
From(s, i) == SubSeq(s, i, Len(s))

\* "".join(ch for ch in url if ord(ch) >= 32).strip()
Strip(s) ==
    LET t == SelectSeq(s, LAMBDA ch : ch \notin Controls)
        kept == {i \in 1..Len(t) : t[i] \notin Whitespace}
    IN  IF kept = {} THEN <<>>
        ELSE SubSeq(t, CHOOSE i \in kept : \A j \in kept : i <= j,
                       CHOOSE i \in kept : \A j \in kept : i >= j)

\* urllib.parse.urlsplit: the scheme before the first ":", in lower case; the
\* netloc after "//" up to the first of "/", "?", "#"; the fragment after the
\* first "#"; the query after the first "?" before it; the path is the rest
urlsplit(s) ==
    LET colon == Find(s, {":"})
        named == colon = 2 /\ s[1] \in {"http", "https", "HTTP", "HTTPS", "ftp"}
        scheme == IF ~named THEN ""
                  ELSE IF s[1] = "HTTP" THEN "http"
                  ELSE IF s[1] = "HTTPS" THEN "https"
                  ELSE s[1]
        rest == IF named THEN From(s, 3) ELSE s
        slashes == Len(rest) >= 2 /\ rest[1] = "/" /\ rest[2] = "/"
        after == IF slashes THEN From(rest, 3) ELSE rest
        delim == Find(after, {"/", "?", "#"})
        netloc == IF ~slashes THEN <<>>
                  ELSE IF delim = 0 THEN after
                  ELSE SubSeq(after, 1, delim - 1)
        tail == IF ~slashes \/ delim = 0
                THEN (IF slashes THEN <<>> ELSE after)
                ELSE From(after, delim)
        hash == Find(tail, {"#"})
        fragment == IF hash = 0 THEN <<>> ELSE From(tail, hash + 1)
        front == IF hash = 0 THEN tail ELSE SubSeq(tail, 1, hash - 1)
        mark == Find(front, {"?"})
        query == IF mark = 0 THEN <<>> ELSE From(front, mark + 1)
        path == IF mark = 0 THEN front ELSE SubSeq(front, 1, mark - 1)
    IN  [scheme |-> scheme, netloc |-> netloc, path |-> path, query |-> query,
         fragment |-> fragment]

\* unquote_plus left out: the text of the query taken as it stands
unquote_plus_Raw(s) == s

\* parse_qsl on a name or value: "+" becomes a space, then unquote decodes
\* each percent-encoded octet; a "%" not followed by two hex digits stays
unquote_plus(s) ==
    [i \in 1..Len(s) |->
        CASE s[i] = "+" -> " "
          [] s[i] = "%20" -> " "
          [] s[i] = "%25" -> "%"
          [] s[i] = "%2B" -> "+"
          [] s[i] = "%26" -> "&"
          [] s[i] = "%3D" -> "="
          [] s[i] = "%2F" -> "/"
          [] s[i] = "%3F" -> "?"
          [] OTHER -> s[i]]

\* the two hex digits of a percent-encoded octet
Digits(octet) ==
    CASE octet = "%20" -> <<"2", "0">>
      [] octet = "%25" -> <<"2", "5">>
      [] octet = "%2B" -> <<"2", "B">>
      [] octet = "%26" -> <<"2", "6">>
      [] octet = "%3D" -> <<"3", "D">>
      [] octet = "%2F" -> <<"2", "F">>
      [] octet = "%3F" -> <<"3", "F">>

\* urlencode on a name or value: quote_plus keeps letters and digits, turns
\* the space into "+" and percent-encodes every other character, the "%" of
\* an octet that was left encoded included
RECURSIVE quote_plus(_)
quote_plus(s) ==
    IF s = <<>> THEN <<>>
    ELSE (CASE s[1] = " " -> <<"+">>
            [] s[1] = "%" -> <<"%25">>
            [] s[1] = "+" -> <<"%2B">>
            [] s[1] = "&" -> <<"%26">>
            [] s[1] = "=" -> <<"%3D">>
            [] s[1] = "/" -> <<"%2F">>
            [] s[1] = "?" -> <<"%3F">>
            [] s[1] \in {"%20", "%25", "%2B", "%26", "%3D", "%2F", "%3F"} ->
                   <<"%25">> \o Digits(s[1])
            [] OTHER -> <<s[1]>>)
         \o quote_plus(Tail(s))

\* urllib.parse.parse_qsl(qs, keep_blank_values=True): the pieces between "&",
\* the empty ones dropped; each split at its first "=" into name and value
\* (no "=": the value is blank), both decoded
RECURSIVE parse_qsl(_)
parse_qsl(qs) ==
    LET amp == Find(qs, {"&"})
        name_value == IF amp = 0 THEN qs ELSE SubSeq(qs, 1, amp - 1)
        others == IF amp = 0 THEN <<>> ELSE parse_qsl(From(qs, amp + 1))
        eq == Find(name_value, {"="})
        name == IF eq = 0 THEN name_value ELSE SubSeq(name_value, 1, eq - 1)
        value == IF eq = 0 THEN <<>> ELSE From(name_value, eq + 1)
    IN  IF qs = <<>> THEN <<>>
        ELSE IF name_value = <<>> THEN others
        ELSE <<[name |-> unquote_plus(name), value |-> unquote_plus(value)]>> \o others

\* urllib.parse.urlencode(query, doseq=True): name=value joined by "&"
RECURSIVE urlencode(_)
urlencode(query) ==
    IF query = <<>> THEN <<>>
    ELSE quote_plus(query[1].name) \o <<"=">> \o quote_plus(query[1].value)
         \o (IF Len(query) = 1 THEN <<>> ELSE <<"&">> \o urlencode(Tail(query)))

\* urllib.parse.urlunsplit: "//" and the netloc are written for a netloc, and
\* for an http(s) URL whose path does not begin with "//"; "?" and "#" are
\* written for a non-empty query and fragment only
urlunsplit(parts) ==
    LET doubled == Len(parts.path) >= 2 /\ parts.path[1] = "/" /\ parts.path[2] = "/"
        rooted == IF parts.path # <<>> /\ parts.path[1] # "/"
                  THEN <<"/">> \o parts.path ELSE parts.path
        u == IF parts.netloc # <<>> \/ ~doubled
             THEN <<"/", "/">> \o parts.netloc \o rooted
             ELSE parts.path
    IN  <<parts.scheme, ":">> \o u
        \o (IF parts.query = <<>> THEN <<>> ELSE <<"?">> \o parts.query)
        \o (IF parts.fragment = <<>> THEN <<>> ELSE <<"#">> \o parts.fragment)

\* what stands for "raise ValueError(...)"
ValueError == <<"ValueError">>

\* normalize_url
normalize_url(u) ==
    LET stripped == Strip(u)
        parts == urlsplit(stripped)
        query == urlencode(parse_qsl(parts.query))
    IN  IF u = <<>> \/ stripped = <<>> THEN ValueError
        ELSE IF parts.scheme \notin {"http", "https"} THEN ValueError
        ELSE urlunsplit([parts EXCEPT !.query = query])

\* the strings of at most n characters of TailChars
RECURSIVE Tails(_)
Tails(n) ==
    IF n = 0 THEN {<<>>}
    ELSE LET shorter == Tails(n - 1)
         IN  shorter \cup {Append(t, ch) : t \in shorter, ch \in TailChars}

\* a URL with a scheme and the host h, and an empty string
InitUrl ==
    /\ NoBreakers
    /\ WebDriverPool(1)
    /\ Runner(FALSE, [s \in Sites |-> NoSteps])
    /\ NoScraper
    /\ NoBucket
    /\ NoRetry
    /\ NoMain
    /\ NoEnhanced
    /\ NoConsumers
    /\ NoAdaptive
    /\ url \in {<<>>} \cup
               {<<scheme, ":", "/", "/", "h">> \o t :
                   scheme \in {"http", "HTTPS", "ftp"}, t \in Tails(MaxUrlLen)}
    /\ upc = "call"
    /\ once = <<>>
    /\ twice = <<>>

urlRest == <<breakerVars, poolVars, runnerVars, scraperVars, bucketVars, retryVars,
             mainVars, enhancedVars, consumerVars, adaptiveVars, url>>

\* normalized_once = normalize_url(url)
Normalize ==
    /\ upc = "call"
    /\ once' = normalize_url(url)
    /\ upc' = IF once' = ValueError THEN "raised" ELSE "once"
    /\ UNCHANGED twice
    /\ UNCHANGED urlRest

\* normalized_twice = normalize_url(normalized_once)
NormalizeAgain ==
    /\ upc = "once"
    /\ twice' = normalize_url(once)
    /\ upc' = "twice"
    /\ UNCHANGED once
    /\ UNCHANGED urlRest

NextUrl ==
    \/ Normalize
    \/ NormalizeAgain

SpecUrl == InitUrl /\ [][NextUrl]_vars

(* ----------------------------- url properties -------------------------- *)

\* an absolute http/https URL made of characters a URL may hold: no
\* whitespace and no control character
ValidUrl(u) ==
    /\ normalize_url(u) # ValueError
    /\ \A i \in 1..Len(u) : u[i] \notin Whitespace \cup Controls

\* C30: for a valid absolute http/https URL, normalizing the normalized URL
\* again gives the normalized URL.
C30_NormalizeIsIdempotent ==
    (upc = "twice" /\ ValidUrl(url)) => twice = once

\* a valid URL whose query normalization has rewritten,
\* normalized twice
C30_Witness ==
    /\ upc = "twice"
    /\ ValidUrl(url)
    /\ once # url
    /\ urlsplit(url).query # <<>>
    /\ urlsplit(once).query # urlsplit(url).query
    /\ twice = once

(* ----------------------------- SpecAdaptive ---------------------------- *)
(* The construction of an AdaptiveRateLimiter, by EnhancedSiteScraper.     *)
(* __init__ or by any other caller, for rates in tenths of a request per   *)
(* second.  Its first statement builds the TokenBucket it delegates to.    *)

\* a call of TokenBucket with the keyword arguments kw: __init__(self,
\* capacity, fill_rate) takes these two and no other, and has no defaults
TokenBucketCall(kw) ==
    IF kw = {"capacity", "fill_rate"} THEN "bound" ELSE "TypeError"

\* AdaptiveRateLimiter.__init__: an exception of the first statement leaves
\* no object behind
AdaptiveRateLimiter(initial_rate, min_rate, max_rate) ==
    IF TokenBucketCall({"requests_per_second"}) = "TypeError"
    THEN [raised |-> "TypeError", self |-> NoLimiter]
    ELSE [raised |-> "none",
          self |-> [built |-> TRUE, _rate |-> initial_rate, _min_rate |-> min_rate,
                    _max_rate |-> max_rate]]

InitAdaptive ==
    /\ NoBreakers
    /\ WebDriverPool(1)
    /\ Runner(FALSE, [s \in Sites |-> NoSteps])
    /\ NoScraper
    /\ NoBucket
    /\ NoRetry
    /\ NoMain
    /\ NoEnhanced
    /\ NoUrl
    /\ NoConsumers
    /\ aargs \in [initial_rate : 1..MaxAdaptiveRate, min_rate : 1..MaxAdaptiveRate,
                  max_rate : 1..MaxAdaptiveRate]
    /\ aargs.min_rate <= aargs.max_rate
    /\ apc = "new"
    /\ _rate_limiter = NoLimiter

adaptiveRest == <<breakerVars, poolVars, runnerVars, scraperVars, bucketVars, retryVars,
                  mainVars, enhancedVars, urlVars, consumerVars, aargs>>

\* self._rate_limiter = AdaptiveRateLimiter(initial_rate=..., min_rate=..., max_rate=...)
AdaptiveNew ==
    /\ apc = "new"
    /\ LET r == AdaptiveRateLimiter(aargs.initial_rate, aargs.min_rate, aargs.max_rate)
       IN  IF r.raised = "none"
           THEN apc' = "built" /\ _rate_limiter' = r.self
           ELSE apc' = r.raised /\ UNCHANGED _rate_limiter
    /\ UNCHANGED adaptiveRest

NextAdaptive == AdaptiveNew

SpecAdaptive == InitAdaptive /\ [][NextAdaptive]_vars

(* -------------------------- adaptive properties ------------------------ *)

\* C36: once the constructor is over there is an AdaptiveRateLimiter, and its
\* current rate lies within [min_rate, max_rate].
C36_RateWithinBounds ==
    apc # "new" =>
        /\ _rate_limiter.built
        /\ _rate_limiter._min_rate <= _rate_limiter._rate
        /\ _rate_limiter._rate <= _rate_limiter._max_rate

====
